---------------------------- MODULE Spec2Model ----------------------------
(***************************************************************************)
(* Memory-lifecycle subsystem of cortex:                                   *)
(*   - BackgroundLearner (src/cortex/learning/background.py): the queue    *)
(*     of topics, the task map, the learning loop thread(s);               *)
(*   - MemoryDatabase (src/cortex/memory/database.py): semantic facts and  *)
(*     skills;                                                             *)
(*   - MemoryConsolidator (src/cortex/memory/consolidation.py): the        *)
(*     consolidation run.                                                  *)
(*                                                                         *)
(* Confidences of semantic facts are integers in hundredths (0.7 is 70).   *)
(* Skill confidences are fractions <<numerator, denominator>>.             *)
(* A fact text is the record [head, tail]: head is its first 50            *)
(* characters, tail the rest.                                              *)
(***************************************************************************)
EXTENDS Integers, Sequences, FiniteSets, TLC

VARIABLES
    active_tasks,     \* BackgroundLearner.active_tasks: topic -> LearningTask
    task_queue,       \* BackgroundLearner.task_queue: deque of topics
    running,          \* BackgroundLearner.running
    threads,          \* the learning-loop threads: slot -> position and locals
    stats,            \* BackgroundLearner.stats
    now,              \* the clock read by time.time()
    urgent,           \* history: topic noted (made high-priority during a
                      \*   batch; or every tracked topic) -> number of
                      \*   selections that have passed it over since
    semantic_memory,  \* table semantic_memory: id -> row
    sem_seq,          \* AUTOINCREMENT counter of semantic_memory
    stored_confidence, \* history: id -> the confidence the row was inserted with
    skill_memory,     \* table skill_memory: skill_name -> row
    skill_seq,        \* AUTOINCREMENT counter of skill_memory
    skill_history,    \* history: skill_name -> outcomes recorded since its upsert
    cons,             \* the consolidate() call in progress: position, connection, report
    sessions,         \* table sessions as committed in the file: id -> row
    conn,             \* MemoryDatabase.conn: its open transaction and what it wrote
    returned,         \* the last MemoryDatabase call: its number, arguments and outcome
    callers,          \* the callers of update_skill_stats: caller -> position and locals
    consolidation_log, \* table consolidation_log: the records in insertion order
    learning_state,   \* table background_learning_state as committed: topic -> row
    saver,            \* the save_state() call in progress: position, transaction
    outputs,          \* the last export file and report, the last query result
    status_call,      \* the get_status() call in progress: position, the dict it builds
    episodic_memory,  \* table episodic_memory as committed: id -> row
    added,            \* history: the add_episodic_memory and create_session calls that returned
    archive_file      \* the last episodic_<date>.json written: the ids of its records

schedVars == <<active_tasks, task_queue, running, threads, stats, now, urgent>>
storeVars == <<semantic_memory, sem_seq, stored_confidence>>
skillVars == <<skill_memory, skill_seq, skill_history>>
vars == <<active_tasks, task_queue, running, threads, stats, now, urgent,
          semantic_memory, sem_seq, stored_confidence,
          skill_memory, skill_seq, skill_history, cons,
          sessions, conn, returned, callers, consolidation_log,
          learning_state, saver, outputs,
          status_call, episodic_memory, added, archive_file>>
sessionVars == <<sessions, conn, returned>>
saveVars == <<learning_state, saver>>
lifeVars == <<status_call, episodic_memory, added, archive_file>>
sideVars == <<sessionVars, callers, consolidation_log, saveVars, outputs, lifeVars>>

----------------------------------------------------------------------------
(* Bounds of the model *)

MaxThreads == 2
MaxCycles == 2
MaxTime == 2
SevenDays == 168     \* timedelta(days=7), datetime('now', '-7 days'); the clock counts hours
MaxFacts == 2
batch_size == 2

Topics == {"a", "A"}
NoPriority == <<>>
AddPrioInputs == {NoPriority, <<0>>, <<9>>}
PrioInputs == {3, 9}
ConfInputs == {-10, 65, 95}
FactInputs == {[head |-> "p", tail |-> ""]}

----------------------------------------------------------------------------
(* Helpers *)

Min2(a, b) == IF a < b THEN a ELSE b

Range(s) == {s[i] : i \in 1..Len(s)}

\* SQLite's NOCASE collation: ASCII letters compare without case.
Lower(t) == IF t = "A" THEN "a" ELSE t

\* deque.remove(x): removes the first occurrence.
RECURSIVE RemoveFirst(_, _)
RemoveFirst(s, x) ==
    IF s = <<>> THEN <<>>
    ELSE IF Head(s) = x THEN Tail(s)
    ELSE <<Head(s)>> \o RemoveFirst(Tail(s), x)

\* A batch left in queue order.
KeepQueueOrder(s, prio) == s

\* list.sort(key=priority, reverse=True): stable, highest priority first.
RECURSIVE InsertByPriority(_, _, _)
InsertByPriority(sorted, t, prio) ==
    IF sorted = <<>> THEN <<t>>
    ELSE IF prio[Head(sorted)] >= prio[t]
         THEN <<Head(sorted)>> \o InsertByPriority(Tail(sorted), t, prio)
         ELSE <<t>> \o sorted

RECURSIVE SortByPriority(_, _)
SortByPriority(s, prio) ==
    IF s = <<>> THEN <<>>
    ELSE InsertByPriority(SortByPriority(SubSeq(s, 1, Len(s) - 1), prio),
                          s[Len(s)], prio)

\* No consolidate() call in progress.
IdleRun == [pc |-> "idle", txn |-> FALSE, sem |-> <<>>, skills |-> <<>>,
            sessions |-> <<>>, episodic |-> <<>>,
            before_sem |-> <<>>, before_skills |-> <<>>,
            operations |-> <<>>, status |-> "none"]

----------------------------------------------------------------------------
(* BackgroundLearner *)

\* LearningTask(topic, priority, facts_count) with __post_init__.
LearningTask(topic, priority, facts_count, t) ==
    [topic |-> topic, priority |-> priority, created_at |-> t,
     last_updated |-> t, facts_count |-> facts_count, improvement_rounds |-> 0]

\* A _calculate_priority whose second threshold includes 0.7.
PriorityUpTo70(fact_count, avg_confidence) ==
    IF fact_count < 5 THEN 6
    ELSE IF avg_confidence < 50 THEN 8
    ELSE IF avg_confidence <= 70 THEN 7
    ELSE 3

\* _calculate_priority(fact_count, avg_confidence); avg in hundredths.
CalculatePriority(fact_count, avg_confidence) ==
    IF fact_count < 5 THEN 6
    ELSE IF avg_confidence < 50 THEN 8
    ELSE IF avg_confidence < 70 THEN 7
    ELSE 3

\* `priority or 5`: None and 0 are falsy.
PriorityOr5(priority) ==
    IF priority = NoPriority THEN 5
    ELSE IF priority[1] = 0 THEN 5 ELSE priority[1]

Tracked == DOMAIN active_tasks

\* Topics in the order of `GROUP BY topic` (BINARY collation).
TopicOrder == <<"A", "a">>

\* The rows of one group of _load_tasks: WHERE tier = 'WARM' GROUP BY topic.
WarmRows(table, topic) ==
    {id \in DOMAIN table : table[id].tier = "WARM" /\ table[id].topic = topic}

RECURSIVE SumConfidence(_, _)
SumConfidence(table, ids) ==
    IF ids = {} THEN 0
    ELSE LET id == CHOOSE x \in ids : TRUE
         IN table[id].confidence + SumConfidence(table, ids \ {id})

\* AVG(confidence), rounded down to hundredths; every threshold it is
\* compared with is a whole number of hundredths.
AvgConfidence(table, ids) == SumConfidence(table, ids) \div Cardinality(ids)

\* MAX(created_at) of a group.
LastUpdate(table, ids) ==
    CHOOSE c \in {table[id].created_at : id \in ids} :
        \A id \in ids : table[id].created_at <= c

\* datetime.now() - timedelta(days=7): datetime.now() is the local time of
\* the process, utc_offset hours ahead of the UTC of CURRENT_TIMESTAMP.
LoadCutoff(t, utc_offset) == t + utc_offset - SevenDays

\* HAVING avg_confidence < 0.8 OR last_update < ?
NeedsImprovement(table, topic, cutoff) ==
    /\ WarmRows(table, topic) /= {}
    /\ \/ AvgConfidence(table, WarmRows(table, topic)) < 80
       \/ LastUpdate(table, WarmRows(table, topic)) < cutoff

\* _load_tasks: the queue and the task map read from the store.
LoadTasks(table, t, cutoff) ==
    LET queue == SelectSeq(TopicOrder,
                           LAMBDA topic : NeedsImprovement(table, topic, cutoff))
    IN [task_queue |-> queue,
        active_tasks |-> [topic \in Range(queue) |->
            LearningTask(topic,
                         CalculatePriority(Cardinality(WarmRows(table, topic)),
                                           AvgConfidence(table, WarmRows(table, topic))),
                         Cardinality(WarmRows(table, topic)), t)]]

\* The body of add_topic under `if topic not in self.active_tasks`.
EnqueueNewTask(topic, priority) ==
    /\ active_tasks' = [x \in Tracked \cup {topic} |->
           IF x = topic
           THEN LearningTask(topic, PriorityOr5(priority), 0, now)
           ELSE active_tasks[x]]
    /\ task_queue' = Append(task_queue, topic)
    /\ stats' = [stats EXCEPT !.total_topics = Cardinality(Tracked \cup {topic})]

\* An add_topic without the membership test.
AddTopicAlways(topic, priority) == EnqueueNewTask(topic, priority)

\* The effect of add_topic on the scheduler state.
AddTopicEffect(topic, priority) ==
    IF topic \notin Tracked
    THEN EnqueueNewTask(topic, priority)
    ELSE UNCHANGED <<active_tasks, task_queue, stats>>

add_topic(topic, priority) ==
    /\ AddTopicEffect(topic, priority)
    /\ UNCHANGED <<running, threads, now, storeVars>>

\* A promotion that forgets the remove().
PromoteWithoutRemove(queue, topic) == <<topic>> \o queue

\* A promotion that puts the topic at the right end.
PromoteToBack(queue, topic) ==
    IF topic \in Range(queue) THEN Append(RemoveFirst(queue, topic), topic) ELSE queue

\* update_priority, priority >= 8: remove() then appendleft(); a topic that
\* is not in the queue raises ValueError, which is swallowed.
PromoteToFront(queue, topic) ==
    IF topic \in Range(queue) THEN <<topic>> \o RemoveFirst(queue, topic) ELSE queue

update_priority(topic, priority) ==
    /\ IF topic \in Tracked
       THEN /\ active_tasks' = [active_tasks EXCEPT ![topic].priority = priority]
            /\ task_queue' =
                 IF priority >= 8 THEN PromoteToFront(task_queue, topic)
                 ELSE task_queue
       ELSE UNCHANGED <<active_tasks, task_queue>>
    /\ UNCHANGED <<running, threads, stats, now, storeVars>>

NoThread == [pc |-> "none", batch |-> <<>>, pending |-> <<>>, improved |-> FALSE,
             selected |-> {}, failed |-> {}]

\* start(): a second call while running returns at once.
start ==
    /\ IF running
       THEN UNCHANGED <<running, threads>>
       ELSE /\ \E i \in 1..MaxThreads : threads[i].pc = "none"
            /\ running' = TRUE
            /\ LET i == CHOOSE j \in 1..MaxThreads : threads[j].pc = "none"
               IN threads' = [threads EXCEPT ![i] = [NoThread EXCEPT !.pc = "check"]]
    /\ UNCHANGED <<active_tasks, task_queue, stats, now, storeVars>>

\* stop(): clears the flag; join(timeout=5.0) returns with the thread
\* finished or not.
stop ==
    /\ running' = FALSE
    /\ UNCHANGED <<active_tasks, task_queue, threads, stats, now, storeVars>>

\* _process_batch, first part: the batch is taken under the lock.
SelectBatch(queue, tasks) ==
    LET n == Min2(batch_size, Len(queue))
        popped == SubSeq(queue, 1, n)
        kept == SelectSeq(popped, LAMBDA t : t \in DOMAIN tasks)
    IN [batch |-> SortByPriority(kept, [t \in DOMAIN tasks |-> tasks[t].priority]),
        rest |-> SubSeq(queue, n + 1, Len(queue))]

\* The end of a cycle in _learning_loop: the cycle statistics, then the sleep.
CycleStats(st) == [st EXCEPT !.cycles_run = @ + 1, !.last_cycle = now]

\* _learning_loop at a cycle boundary: `while self.running`, then the
\* selection of _process_batch (an empty batch ends the cycle at once).
LoopCheck(i) ==
    /\ threads[i].pc = "check"
    /\ IF ~running
       THEN /\ threads' = [threads EXCEPT ![i] = NoThread]
            /\ UNCHANGED <<task_queue, stats>>
       ELSE /\ stats.cycles_run < MaxCycles
            /\ LET sel == SelectBatch(task_queue, active_tasks)
               IN /\ task_queue' = sel.rest
                  /\ IF sel.batch = <<>>
                     THEN /\ threads' = [threads EXCEPT ![i].selected = {},
                                                       ![i].failed = {}]
                          /\ stats' = CycleStats(stats)
                     ELSE /\ threads' = [threads EXCEPT ![i].pc = "improve",
                                               ![i].batch = sel.batch,
                                               ![i].selected = Range(sel.batch),
                                               ![i].failed = {}]
                          /\ UNCHANGED stats
    /\ UNCHANGED <<active_tasks, running, now, storeVars>>

\* Rows of `WHERE topic = ? COLLATE NOCASE`.
TopicRows(topic) ==
    {id \in DOMAIN semantic_memory : Lower(semantic_memory[id].topic) = Lower(topic)}

\* The first row of `ORDER BY confidence ASC LIMIT 5`: a row of least confidence.
LowestRows(topic) ==
    {id \in TopicRows(topic) :
        \A o \in TopicRows(topic) :
            semantic_memory[id].confidence <= semantic_memory[o].confidence}

\* min(confidence + 0.05, 0.9)
NewConfidence(confidence) == Min2(confidence + 5, 90)

\* _improve_topic, the SELECT and the scan of its rows.
ImproveRead(i) ==
    /\ threads[i].pc = "improve"
    /\ LET topic == Head(threads[i].batch)
       IN IF TopicRows(topic) = {}
          THEN threads' = [threads EXCEPT ![i].pc = "requeue", ![i].improved = FALSE]
          ELSE \E id \in LowestRows(topic) :
                 IF semantic_memory[id].confidence < 70
                 THEN threads' = [threads EXCEPT ![i].pc = "write",
                        ![i].pending = <<[fact |-> semantic_memory[id].fact,
                                          confidence |-> NewConfidence(
                                              semantic_memory[id].confidence)]>>]
                 ELSE threads' = [threads EXCEPT ![i].pc = "requeue",
                                                 ![i].improved = FALSE]
    /\ UNCHANGED <<active_tasks, task_queue, running, stats, now, storeVars>>

\* The UPDATE of _improve_topic: every row of the topic with that fact text.
ImprovedRows(topic, fact) ==
    {id \in TopicRows(topic) : semantic_memory[id].fact = fact}

\* _improve_topic, the UPDATE, the commit and facts_learned.
ImproveWrite(i) ==
    /\ threads[i].pc = "write"
    /\ LET topic == Head(threads[i].batch)
           p == threads[i].pending[1]
       IN semantic_memory' = [id \in DOMAIN semantic_memory |->
              IF id \in ImprovedRows(topic, p.fact)
              THEN [semantic_memory[id] EXCEPT !.confidence = p.confidence]
              ELSE semantic_memory[id]]
    /\ stats' = [stats EXCEPT !.facts_learned = @ + 1]
    /\ threads' = [threads EXCEPT ![i].pc = "requeue", ![i].improved = TRUE,
                                  ![i].pending = <<>>]
    /\ UNCHANGED <<active_tasks, task_queue, running, now, sem_seq, stored_confidence>>

\* The statistics after one task: the last task of the batch ends the cycle.
StatsAfterTask(th, st) == IF Tail(th.batch) = <<>> THEN CycleStats(st) ELSE st

\* Where the loop goes after one task of the batch.
AfterTask(th) ==
    [th EXCEPT !.batch = Tail(th.batch), !.pending = <<>>, !.improved = FALSE,
               !.pc = IF Tail(th.batch) = <<>> THEN "check" ELSE "improve"]

\* A requeue that always goes to the front.
RequeueAtFront(queue, topic, priority) == <<topic>> \o queue

\* The queue after the requeue of a processed task.
RequeueAt(queue, topic, priority) ==
    IF priority >= 7 THEN <<topic>> \o queue ELSE Append(queue, topic)

\* _process_batch, the locked block after _improve_topic returned.
Requeue(i) ==
    /\ threads[i].pc = "requeue"
    /\ LET topic == Head(threads[i].batch)
           task == active_tasks[topic]
           new_priority == CalculatePriority(task.facts_count, 70)
       IN /\ active_tasks' = [active_tasks EXCEPT ![topic] =
                 [task EXCEPT
                    !.improvement_rounds = IF threads[i].improved THEN @ + 1 ELSE @,
                    !.last_updated = IF threads[i].improved THEN now ELSE @,
                    !.priority = new_priority]]
          /\ stats' = StatsAfterTask(threads[i],
                 [stats EXCEPT
                    !.improvement_rounds = IF threads[i].improved THEN @ + 1 ELSE @])
          /\ task_queue' = RequeueAt(task_queue, topic, new_priority)
    /\ threads' = [threads EXCEPT ![i] = AfterTask(threads[i])]
    /\ UNCHANGED <<running, now, storeVars>>

\* An exception that leaves the for loop: the rest of the batch is dropped.
OnTaskErrorDropBatch(th) ==
    [th EXCEPT !.batch = <<>>, !.pending = <<>>, !.improved = FALSE,
               !.pc = "check", !.failed = th.failed \cup {Head(th.batch)}]

\* What `except Exception` of _process_batch leaves of the failed task.
OnTaskError(th) ==
    [AfterTask(th) EXCEPT !.failed = th.failed \cup {Head(th.batch)}]

\* _improve_topic raises (connect, SELECT or UPDATE fails: no such table,
\* database is locked): the except clause of _process_batch.
ImproveRaise(i) ==
    /\ threads[i].pc \in {"improve", "write"}
    /\ threads' = [threads EXCEPT ![i] = OnTaskError(threads[i])]
    /\ stats' = StatsAfterTask(threads[i], stats)
    /\ UNCHANGED <<active_tasks, task_queue, running, now, storeVars>>

----------------------------------------------------------------------------
(* MemoryDatabase / Brain: semantic facts *)

SemanticRow(topic, fact, confidence, t) ==
    [topic |-> topic, fact |-> fact, confidence |-> confidence,
     created_at |-> t, access_count |-> 0, tier |-> "WARM"]

\* add_semantic_memory: INSERT of one row.
AddSemantic(topic, fact, confidence) ==
    /\ sem_seq' = sem_seq + 1
    /\ semantic_memory' = [id \in DOMAIN semantic_memory \cup {sem_seq + 1} |->
          IF id = sem_seq + 1 THEN SemanticRow(topic, fact, confidence, now)
          ELSE semantic_memory[id]]
    /\ stored_confidence' = [id \in DOMAIN semantic_memory \cup {sem_seq + 1} |->
          IF id = sem_seq + 1 THEN confidence ELSE stored_confidence[id]]

\* Brain.learn_fact: the INSERT, then add_topic when confidence < 0.9.
learn_fact(topic, fact, confidence) ==
    /\ Cardinality(DOMAIN semantic_memory) < MaxFacts
    /\ AddSemantic(topic, fact, confidence)
    /\ IF confidence < 90
       THEN AddTopicEffect(topic, <<IF confidence < 60 THEN 8 ELSE 6>>)
       ELSE UNCHANGED <<active_tasks, task_queue, stats>>
    /\ UNCHANGED <<running, threads, now>>

Tick ==
    /\ now < MaxTime
    /\ now' = now + 1
    /\ UNCHANGED <<active_tasks, task_queue, running, threads, stats, storeVars>>

----------------------------------------------------------------------------
(* The scheduler with its store *)

InitStats == [total_topics |-> 0, cycles_run |-> 0, facts_learned |-> 0,
              improvement_rounds |-> 0, last_cycle |-> 0]

\* Stores the scheduler may be constructed on: no row, or one row of topic
\* "a" (one improvement away from 0.7).
InitStores == {<<>>, <<SemanticRow("a", [head |-> "p", tail |-> ""], 65, 1)>>}

\* MemoryDatabase.connect() on a new file: no session, no open transaction.
ClosedConn == [open |-> FALSE, sessions |-> <<>>]

NoCall == [n |-> 0, op |-> "none", id |-> "", result |-> "none"]

\* Who calls the store: the thread that opened MemoryDatabase.conn, another
\* thread holding the same MemoryDatabase, and a MemoryDatabase of its own on
\* the same file.
Callers == {"owner", "thread", "connection"}

IdleCaller == [pc |-> "idle", skill_name |-> "", success |-> FALSE, row |-> <<>>]

\* Nothing exported, nothing queried.
NoOutputs == [file |-> <<>>, semantic_count |-> 0, export_at |-> -1,
              recalled |-> <<>>, query |-> <<>>, query_at |-> -1]

\* No get_status() call in progress.
IdleStatus == [pc |-> "idle", dict |-> <<>>]

\* No add_episodic_memory and no create_session call has returned.
NoneAdded == [episodic |-> 0, sessions |-> 0]

\* No save_state() call in progress.
IdleSaver == [pc |-> "idle", pending |-> <<>>, result |-> "none"]

Connected ==
    /\ sessions = <<>>
    /\ conn = ClosedConn
    /\ returned = NoCall
    /\ callers = [c \in Callers |-> IdleCaller]
    /\ consolidation_log = <<>>
    /\ learning_state = <<>>
    /\ saver = IdleSaver
    /\ outputs = NoOutputs
    /\ status_call = IdleStatus
    /\ episodic_memory = <<>>
    /\ added = NoneAdded
    /\ archive_file = <<>>

\* No skill, no consolidation run.
NoSkillsNoRun ==
    /\ skill_memory = <<>>
    /\ skill_seq = 0
    /\ skill_history = <<>>
    /\ cons = IdleRun

\* BackgroundLearner.__init__ on a store: empty statistics, then _load_tasks.
Constructed(table) ==
    /\ active_tasks = LoadTasks(table, now, LoadCutoff(now, 0)).active_tasks
    /\ task_queue = LoadTasks(table, now, LoadCutoff(now, 0)).task_queue
    /\ running = FALSE
    /\ threads = [i \in 1..MaxThreads |-> NoThread]
    /\ urgent = <<>>
    /\ stats = [InitStats EXCEPT
                   !.total_topics = Cardinality(DOMAIN LoadTasks(table, now, LoadCutoff(now, 0)).active_tasks)]

Init ==
    /\ NoSkillsNoRun
    /\ now = 1
    /\ semantic_memory \in InitStores
    /\ sem_seq = Len(semantic_memory)
    /\ stored_confidence = [id \in DOMAIN semantic_memory |->
                               semantic_memory[id].confidence]
    /\ Connected
    /\ Constructed(semantic_memory)

Loop(i) ==
    \/ LoopCheck(i)
    \/ ImproveRead(i)
    \/ ImproveWrite(i)
    \/ ImproveRaise(i)
    \/ Requeue(i)

SchedNext ==
    \/ \E t \in Topics, p \in AddPrioInputs : add_topic(t, p)
    \/ \E t \in Topics, p \in PrioInputs : update_priority(t, p)
    \/ start
    \/ stop
    \/ \E i \in 1..MaxThreads : Loop(i)
    \/ Tick

Next == SchedNext /\ UNCHANGED <<urgent, skillVars, cons, sideVars>>

Spec == Init /\ [][Next]_vars

----------------------------------------------------------------------------
(* The scheduler beside foreground writes of facts (Brain.learn_fact) *)

InitFacts ==
    /\ NoSkillsNoRun
    /\ now = 1
    /\ semantic_memory = <<>>
    /\ sem_seq = 0
    /\ stored_confidence = <<>>
    /\ Connected
    /\ Constructed(semantic_memory)

FactsNext ==
    \/ \E t \in Topics, f \in FactInputs, c \in ConfInputs : learn_fact(t, f, c)
    \/ start
    \/ stop
    \/ \E i \in 1..MaxThreads : Loop(i)

NextFacts == FactsNext /\ UNCHANGED <<urgent, skillVars, cons, sideVars>>

SpecFacts == InitFacts /\ [][NextFacts]_vars

----------------------------------------------------------------------------
(* The queue under more topics than a batch holds: an empty store, three    *)
(* topics, and the history of the topics made high-priority during a batch. *)

QueueTopics == {"a", "A", "b"}
QueuePrioInputs == {NoPriority, <<9>>}

BatchInFlight == \E i \in 1..MaxThreads : threads[i].pc \in {"improve", "write", "requeue"}

\* The selection step of thread i: a batch was taken from the queue.
Selected(i) == threads[i].pc = "check" /\ threads'[i].pc = "improve"

\* The history entry of a topic made high-priority now: passed over 0 times.
Noted(f, t) == [k \in DOMAIN f \cup {t} |-> IF k = t THEN 0 ELSE f[k]]

QueueAdd(topic, priority) ==
    /\ add_topic(topic, priority)
    /\ urgent' = IF BatchInFlight /\ topic \notin Tracked /\ PriorityOr5(priority) = 9
                 THEN Noted(urgent, topic) ELSE urgent

QueueBoost(topic, priority) ==
    /\ update_priority(topic, priority)
    /\ urgent' = IF BatchInFlight /\ topic \in Tracked /\ priority >= 8
                 THEN Noted(urgent, topic) ELSE urgent

QueueLoop(i) ==
    /\ \/ LoopCheck(i)
       \/ ImproveRead(i)
       \/ Requeue(i)
    /\ urgent' = IF Selected(i)
                 THEN [t \in DOMAIN urgent \ Range(threads'[i].batch) |-> urgent[t] + 1]
                 ELSE urgent

QueueNext ==
    \/ \E t \in QueueTopics, p \in QueuePrioInputs : QueueAdd(t, p)
    \/ \E t \in QueueTopics : QueueBoost(t, 9)
    \/ start /\ UNCHANGED urgent
    \/ \E i \in 1..MaxThreads : QueueLoop(i)

NextQueue == QueueNext /\ UNCHANGED <<skillVars, cons, sideVars>>

SpecQueue == InitFacts /\ [][NextQueue]_vars

----------------------------------------------------------------------------
(* MemoryDatabase: skills *)

MaxOutcomes == 5     \* outcomes recorded on one skill row
MaxUpserts == 3      \* add_skill calls

SkillNames == {"s", "t"}
\* SQL NULL and Python None; a present value v is <<v>>.
NoValue == <<>>
SkillConfInputs == {<<1, 2>>, <<7, 10>>}
DurationInputs == {NoValue, <<0>>, <<100>>}

\* Python truthiness of an optional integer.
Truthy(v) == v /= NoValue /\ v[1] /= 0

\* Equality of two fractions.
FracEq(a, b) == a[1] * b[2] = b[1] * a[2]

Put(f, k, v) == [x \in DOMAIN f \cup {k} |-> IF x = k THEN v ELSE f[x]]

\* The columns add_skill leaves to their defaults; description, steps and
\* prerequisites are NULL when the call does not supply them.
SkillRow(id, confidence) ==
    [id |-> id, description |-> NoValue, steps |-> NoValue,
     prerequisites |-> NoValue, confidence |-> confidence, success_count |-> 0,
     failure_count |-> 0, avg_duration_ms |-> NoValue, last_used |-> NoValue,
     tier |-> "WARM"]

\* An upsert that keeps the row and overwrites the supplied column only.
UpdateSupplied(table, skill_name, id, confidence) ==
    IF skill_name \in DOMAIN table
    THEN [table EXCEPT ![skill_name].confidence = confidence]
    ELSE Put(table, skill_name, SkillRow(id, confidence))

\* An upsert that carries the usage columns of the old row over.
ReplaceKeepingUsage(table, skill_name, id, confidence) ==
    IF skill_name \in DOMAIN table
    THEN Put(table, skill_name,
             [SkillRow(id, confidence) EXCEPT
                 !.avg_duration_ms = table[skill_name].avg_duration_ms,
                 !.last_used = table[skill_name].last_used])
    ELSE Put(table, skill_name, SkillRow(id, confidence))

\* INSERT OR REPLACE: the row of that skill_name is deleted, a new one inserted.
InsertOrReplace(table, skill_name, id, confidence) ==
    Put(table, skill_name, SkillRow(id, confidence))

\* A write of the foreground connection waits while the consolidation run
\* holds its transaction; it is taken here when the lock is free.
add_skill(skill_name, confidence) ==
    /\ ~cons.txn
    /\ skill_seq < MaxUpserts
    /\ skill_seq' = skill_seq + 1
    /\ skill_memory' = InsertOrReplace(skill_memory, skill_name, skill_seq + 1, confidence)
    /\ skill_history' = Put(skill_history, skill_name,
                            [successes |-> 0, failures |-> 0])
    /\ UNCHANGED <<schedVars, sideVars, storeVars, cons>>

\* A plain success ratio in place of the estimator.
RatioConfidence(success_count, failure_count) ==
    <<success_count, success_count + failure_count>>

\* confidence = (success_count + 1) / (total + 2)
LaplaceConfidence(success_count, failure_count) ==
    <<success_count + 1, success_count + failure_count + 2>>

\* The `if duration_ms and avg_duration ... elif duration_ms` of update_skill_stats.
NewAvgDuration(avg_duration, duration_ms) ==
    IF Truthy(duration_ms) /\ Truthy(avg_duration)
    THEN <<(avg_duration[1] + duration_ms[1]) \div 2>>
    ELSE IF Truthy(duration_ms) THEN duration_ms
    ELSE avg_duration

\* The row written by update_skill_stats.
RecordedRow(row, success, duration_ms, t) ==
    LET success_count == IF success THEN row.success_count + 1 ELSE row.success_count
        failure_count == IF success THEN row.failure_count ELSE row.failure_count + 1
    IN [row EXCEPT !.success_count = success_count,
                   !.failure_count = failure_count,
                   !.confidence = LaplaceConfidence(success_count, failure_count),
                   !.avg_duration_ms = NewAvgDuration(row.avg_duration_ms, duration_ms),
                   !.last_used = <<t>>]

update_skill_stats(skill_name, success, duration_ms) ==
    /\ ~cons.txn
    /\ IF skill_name \in DOMAIN skill_memory
       THEN /\ skill_memory[skill_name].success_count
                 + skill_memory[skill_name].failure_count < MaxOutcomes
            /\ skill_memory' = [skill_memory EXCEPT ![skill_name] =
                                   RecordedRow(@, success, duration_ms, now)]
            /\ skill_history' = [skill_history EXCEPT
                   ![skill_name].successes = IF success THEN @ + 1 ELSE @,
                   ![skill_name].failures = IF success THEN @ ELSE @ + 1]
       ELSE UNCHANGED <<skill_memory, skill_history>>
    /\ UNCHANGED <<schedVars, sideVars, storeVars, skill_seq, cons>>

----------------------------------------------------------------------------
(* MemoryConsolidator: one consolidate() call, step by step.                *)
(* The run reads and writes through its own connection: once one of its     *)
(* statements has written, its transaction is open (cons.txn), the tables   *)
(* it sees are cons.sem, cons.skills, cons.sessions and cons.episodic, and  *)
(* the foreground connection cannot write.                                  *)

HotAccess == 10      \* access_count > 10 / access_count <= 10

ViewSem == IF cons.txn THEN cons.sem ELSE semantic_memory
ViewSkills == IF cons.txn THEN cons.skills ELSE skill_memory
ConsSessions == IF cons.txn THEN cons.sessions ELSE sessions
ConsEpisodic == IF cons.txn THEN cons.episodic ELSE episodic_memory

SetMin(S) == CHOOSE x \in S : \A y \in S : x <= y
SetMax(S) == CHOOSE x \in S : \A y \in S : x >= y

\* A grouping on the whole fact text.
GroupKeyWholeFact(row) == <<row.topic, row.fact>>

\* GROUP BY topic, SUBSTR(fact, 1, 50)
GroupKey(row) == <<row.topic, row.fact.head>>

GroupOf(table, id) ==
    {o \in DOMAIN table : GroupKey(table[o]) = GroupKey(table[id])}

\* HAVING count > 1
Duplicates(table) ==
    {g \in {GroupOf(table, id) : id \in DOMAIN table} : Cardinality(g) > 1}

\* access_count = access_count + len(remove_ids), on the kept row ids[0].
SurvivorAccess(table, group) ==
    table[SetMin(group)].access_count + (Cardinality(group) - 1)

\* The kept row of one group: MAX(confidence) and the new access_count.
Survivor(table, group) ==
    [table[SetMin(group)] EXCEPT
        !.confidence = SetMax({table[o].confidence : o \in group}),
        !.access_count = SurvivorAccess(table, group)]

\* _consolidate_semantic: the table it leaves and the count it returns.
\* GROUP_CONCAT(id) lists a group's ids in rowid order.
ConsolidateSemantic(table) ==
    LET dups == Duplicates(table)
        keep == {SetMin(g) : g \in dups}
        remove == (UNION dups) \ keep
    IN [table |-> [id \in DOMAIN table \ remove |->
                      IF id \in keep THEN Survivor(table, GroupOf(table, id))
                      ELSE table[id]],
        count |-> Cardinality(remove),
        wrote |-> dups /= {}]

\* A promotion from access_count 10 on.
PromotedFromTen(table) ==
    {id \in DOMAIN table : table[id].access_count >= HotAccess /\ table[id].tier = "WARM"}

\* UPDATE semantic_memory SET tier = 'HOT' WHERE access_count > 10 AND tier = 'WARM'
Promoted(table) ==
    {id \in DOMAIN table : table[id].access_count > HotAccess /\ table[id].tier = "WARM"}

\* UPDATE semantic_memory SET tier = 'WARM' WHERE access_count <= 10 AND tier = 'HOT'
Demoted(table) ==
    {id \in DOMAIN table : table[id].access_count <= HotAccess /\ table[id].tier = "HOT"}

\* UPDATE skill_memory SET tier = 'HOT'
\*   WHERE last_used > datetime('now', '-7 days') AND tier = 'WARM'
PromotedSkills(table, t) ==
    {n \in DOMAIN table : /\ table[n].last_used /= NoValue
                          /\ table[n].last_used[1] > t - SevenDays
                          /\ table[n].tier = "WARM"}

\* A reclassification that moves the rows out of the table.
MoveRows(table, keys, tier) == [k \in DOMAIN table \ keys |-> table[k]]

SetTier(table, keys, tier) ==
    [k \in DOMAIN table |-> IF k \in keys THEN [table[k] EXCEPT !.tier = tier]
                            ELSE table[k]]

\* _update_tiers: three UPDATE statements, count is the sum of their rowcounts.
UpdateTiers(sem, skills, t) ==
    LET promoted == SetTier(sem, Promoted(sem), "HOT")
        demoted == SetTier(promoted, Demoted(promoted), "WARM")
    IN [sem |-> demoted,
        skills |-> SetTier(skills, PromotedSkills(skills, t), "HOT"),
        count |-> Cardinality(Promoted(sem)) + Cardinality(Demoted(promoted))
                  + Cardinality(PromotedSkills(skills, t))]

Reported(operation, count) == [operation |-> operation, count |-> count]

days_threshold == 7  \* consolidate(days_threshold: int = 7)

\* The calendar day of an hour of the clock.
Day(t) == t \div 24

\* datetime.now() - timedelta(days=days_threshold)
CutoffDate(t) == t - 24 * days_threshold

\* A comparison of the two instants.
InstantBefore(stamp, cutoff) == stamp < cutoff

\* `start_time < ?` and `timestamp < ?` with cutoff_date.isoformat(): the
\* column holds CURRENT_TIMESTAMP as 'YYYY-MM-DD HH:MM:SS', the parameter is
\* 'YYYY-MM-DDTHH:MM:SS.ffffff', and the two are compared as text: by the
\* date, and on the same date ' ' sorts before 'T'.
TextBefore(stamp, cutoff) == Day(stamp) <= Day(cutoff)

\* The values of event_type, in the order of GROUP BY event_type.
EventTypes == <<"command", "error">>

EventsOf(etable, session_id, event_type) ==
    {k \in DOMAIN etable : /\ etable[k].session_id = session_id
                           /\ etable[k].event_type = event_type}

\* '; '.join of "<count> <event_type> events" over the groups of the session:
\* the empty text for a session without events.
SummaryOf(etable, session_id) ==
    LET types == SelectSeq(EventTypes,
                           LAMBDA ty : EventsOf(etable, session_id, ty) # {})
    IN [k \in DOMAIN types |->
           <<Cardinality(EventsOf(etable, session_id, types[k])), types[k]>>]

\* WHERE summary IS NULL AND start_time < ? AND end_time IS NOT NULL
Summarizable(stable, cutoff) ==
    {id \in DOMAIN stable : /\ stable[id].summary = NoValue
                            /\ TextBefore(stable[id].start_time, cutoff)
                            /\ stable[id].ended}

\* _summarize_sessions: one UPDATE per session found.
SummarizeSessions(stable, etable, cutoff) ==
    LET found == Summarizable(stable, cutoff)
    IN [table |-> [id \in DOMAIN stable |->
                      IF id \in found
                      THEN [stable[id] EXCEPT !.summary = <<SummaryOf(etable, id)>>]
                      ELSE stable[id]],
        count |-> Cardinality(found),
        wrote |-> found # {}]

\* WHERE timestamp < ? AND tier = 'WARM'
Archivable(etable, cutoff) ==
    {k \in DOMAIN etable : /\ TextBefore(etable[k].timestamp, cutoff)
                           /\ etable[k].tier = "WARM"}

\* _archive_episodic: the records found go to the archive file, then one
\* UPDATE sets their tier.
ArchiveEpisodic(etable, cutoff) ==
    LET records == Archivable(etable, cutoff)
    IN [table |-> SetTier(etable, records, "COLD"),
        file |-> SelectSeq([k \in DOMAIN etable |-> k], LAMBDA k : k \in records),
        count |-> Cardinality(records),
        wrote |-> records # {}]

\* consolidate(): connect, then _summarize_sessions and _archive_episodic.
\* The archive file is written at once; the rows are written in the
\* transaction of the run.
ConsolidateStart ==
    /\ cons.pc = "idle"
    /\ LET s == SummarizeSessions(sessions, episodic_memory, CutoffDate(now))
           a == ArchiveEpisodic(episodic_memory, CutoffDate(now))
           wrote == s.wrote \/ a.wrote
       IN /\ cons' = [IdleRun EXCEPT
                        !.pc = "consolidate_semantic",
                        !.txn = wrote,
                        !.sessions = IF wrote THEN s.table ELSE <<>>,
                        !.episodic = IF wrote THEN a.table ELSE <<>>,
                        !.sem = IF wrote THEN semantic_memory ELSE <<>>,
                        !.skills = IF wrote THEN skill_memory ELSE <<>>,
                        !.operations = <<Reported("summarize_sessions", s.count),
                                         Reported("archive_episodic", a.count)>>]
          /\ archive_file' = IF a.wrote THEN a.file ELSE archive_file
    /\ UNCHANGED <<schedVars, sessionVars, callers, consolidation_log, saveVars,
                   outputs, status_call, episodic_memory, added, storeVars, skillVars>>

\* consolidate(), step 3.
ConsolidateSemanticStep ==
    /\ cons.pc = "consolidate_semantic"
    /\ LET r == ConsolidateSemantic(ViewSem)
       IN cons' = [cons EXCEPT
                     !.pc = "update_tiers",
                     !.txn = cons.txn \/ r.wrote,
                     !.sem = IF cons.txn \/ r.wrote THEN r.table ELSE <<>>,
                     !.skills = IF cons.txn \/ r.wrote THEN ViewSkills ELSE <<>>,
                     !.sessions = IF cons.txn \/ r.wrote THEN ConsSessions ELSE <<>>,
                     !.episodic = IF cons.txn \/ r.wrote THEN ConsEpisodic ELSE <<>>,
                     !.before_sem = ViewSem,
                     !.operations = Append(@, Reported("consolidate_semantic", r.count))]
    /\ UNCHANGED <<schedVars, sideVars, storeVars, skillVars>>

\* consolidate(), step 4.
UpdateTiersStep ==
    /\ cons.pc = "update_tiers"
    /\ LET r == UpdateTiers(ViewSem, ViewSkills, now)
       IN cons' = [cons EXCEPT
                     !.pc = "vacuum",
                     !.txn = TRUE,
                     !.sem = r.sem,
                     !.skills = r.skills,
                     !.sessions = ConsSessions,
                     !.episodic = ConsEpisodic,
                     !.before_sem = ViewSem,
                     !.before_skills = ViewSkills,
                     !.operations = Append(@, Reported("update_tiers", r.count))]
    /\ UNCHANGED <<schedVars, sideVars, storeVars, skillVars>>

\* sum(op['count'] for op in report['operations'])
RECURSIVE RecordsProcessed(_)
RecordsProcessed(operations) ==
    IF operations = <<>> THEN 0
    ELSE Head(operations).count + RecordsProcessed(Tail(operations))

\* The row of the INSERT INTO consolidation_log.
LogRecord(records_processed, status) ==
    [operation |-> "full_consolidation", records_processed |-> records_processed,
     status |-> status]

\* consolidate(), step 5 to the return.  VACUUM inside an open transaction
\* raises: the except clause reports the error and close() rolls back what
\* the steps wrote.  Without an open transaction the run commits.
Vacuum ==
    /\ cons.pc = "vacuum"
    /\ cons' = [IdleRun EXCEPT
                  !.operations = cons.operations,
                  !.status = IF cons.txn THEN "error" ELSE "success"]
    /\ consolidation_log' =
          IF cons.txn THEN consolidation_log
          ELSE Append(consolidation_log,
                      LogRecord(RecordsProcessed(cons.operations), "success"))
    /\ UNCHANGED <<schedVars, sessionVars, callers, saveVars, outputs, lifeVars, storeVars, skillVars>>

Consolidate ==
    \/ ConsolidateStart
    \/ ConsolidateSemanticStep
    \/ UpdateTiersStep
    \/ Vacuum

----------------------------------------------------------------------------
(* Skills: upserts, outcomes and consolidation runs on an empty store *)

InitSkill ==
    /\ NoSkillsNoRun
    /\ now = 1
    /\ semantic_memory = <<>>
    /\ sem_seq = 0
    /\ stored_confidence = <<>>
    /\ Connected
    /\ Constructed(semantic_memory)

NextSkill ==
    \/ \E n \in SkillNames, c \in SkillConfInputs : add_skill(n, c)
    \/ \E n \in SkillNames, ok \in BOOLEAN, d \in DurationInputs :
          update_skill_stats(n, ok, d)
    \/ Consolidate

SpecSkill == InitSkill /\ [][NextSkill]_vars

----------------------------------------------------------------------------
(* One consolidation run on a given store *)

MaxRows == 3         \* rows of a store with duplicates
MaxTierRows == 2     \* rows of a store with tiers
Today == 200         \* the hour of the run

InputRow(topic, fact, confidence, access_count, tier) ==
    [SemanticRow(topic, fact, confidence, Today) EXCEPT !.access_count = access_count,
                                                 !.tier = tier]

Tables(rows, n) == UNION {[1..k -> rows] : k \in 0..n}

\* Topic and fact text of the rows: three texts of topic "a", two of them
\* with the same first 50 characters, and one text of topic "A".
DedupTexts ==
    {<<"a", [head |-> "p", tail |-> ""]>>, <<"a", [head |-> "p", tail |-> "x"]>>,
     <<"a", [head |-> "q", tail |-> ""]>>, <<"A", [head |-> "p", tail |-> ""]>>}

\* Stores of WARM facts, some sharing topic and first 50 characters.
DedupRows ==
    {InputRow(x[1], x[2], c, a, "WARM") : x \in DedupTexts, c \in {30, 60, 90}, a \in {0, 2}}

\* Stores of facts of every tier around the access threshold.
TierRows ==
    {InputRow("a", [head |-> "p", tail |-> ""], 50, a, tier) :
        a \in {5, HotAccess, HotAccess + 1}, tier \in {"WARM", "HOT", "COLD"}}

\* The k-th row of a tier store has its own fact text.
TierTables ==
    {[k \in DOMAIN table |->
        [table[k] EXCEPT !.fact = [head |-> IF k = 1 THEN "p" ELSE "q", tail |-> ""]]] :
     table \in Tables(TierRows, MaxTierRows)}

\* A skill never used, or used once at hour last_used[1].
InputSkill(id, last_used, tier) ==
    [(IF last_used = NoValue THEN SkillRow(id, <<1, 2>>)
      ELSE RecordedRow(SkillRow(id, <<1, 2>>), TRUE, NoValue, last_used[1]))
     EXCEPT !.tier = tier]

SkillTables ==
    UNION {[names -> {InputSkill(1, u, tier) :
                        u \in {NoValue, <<Today - SevenDays - 1>>,
                               <<Today - SevenDays>>, <<Today - SevenDays + 1>>},
                        tier \in {"WARM", "HOT"}}] :
           names \in SUBSET SkillNames}

\* skill_name is UNIQUE and id the key: the second skill has id 2.
WithIds(table) ==
    [n \in DOMAIN table |-> [table[n] EXCEPT !.id = IF n = "s" THEN 1 ELSE 2]]

\* A store with duplicates and no skill, or a store with tiers and skills.
InitCons ==
    /\ now = Today
    /\ \/ /\ semantic_memory \in Tables(DedupRows, MaxRows)
          /\ skill_memory = <<>>
       \/ /\ semantic_memory \in TierTables
          /\ skill_memory \in {WithIds(skills) : skills \in SkillTables}
    /\ sem_seq = Cardinality(DOMAIN semantic_memory)
    /\ stored_confidence = [id \in DOMAIN semantic_memory |->
                               semantic_memory[id].confidence]
    /\ skill_seq = IF "t" \in DOMAIN skill_memory THEN 2
                   ELSE Cardinality(DOMAIN skill_memory)
    /\ skill_history = [n \in DOMAIN skill_memory |->
                           [successes |-> skill_memory[n].success_count,
                            failures |-> skill_memory[n].failure_count]]
    /\ cons = IdleRun
    /\ Connected
    /\ Constructed(semantic_memory)

NextCons == Consolidate

SpecCons == InitCons /\ [][NextCons]_vars

----------------------------------------------------------------------------
(* Claims about the scheduler *)

InFlight == UNION {Range(threads[i].batch) : i \in 1..MaxThreads}

Count(s, x) == Cardinality({k \in 1..Len(s) : s[k] = x})

\* C1: every tracked topic is in the queue or in an in-flight batch, also
\* after its improvement step raised (the topic is put back whatever the
\* outcome of the step).
C1_TrackedTopicsStayInCycle ==
    \A t \in Tracked : t \in Range(task_queue) \/ t \in InFlight

\* C2: no topic is twice in the queue, every queue entry is a key of the
\* task map, and every task is stored under its own topic.
C2_TopicIsUniqueKey ==
    /\ \A t \in Topics : Count(task_queue, t) <= 1
    /\ Range(task_queue) \subseteq Tracked
    /\ \A t \in Tracked : active_tasks[t].topic = t

\* C2 witness: after a cycle, a promoted topic (priority 9) stands before a
\* requeued one (priority 6) in a queue of two.
C2_Witness ==
    /\ stats.cycles_run >= 1
    /\ Len(task_queue) = 2
    /\ active_tasks[task_queue[1]].priority = 9
    /\ active_tasks[task_queue[2]].priority = 6
    /\ active_tasks[task_queue[1]].improvement_rounds + 
         active_tasks[task_queue[2]].improvement_rounds >= 1

\* C3: add_topic on an untracked topic yields one task and one queue entry
\* for it; add_topic on a tracked topic, with any priority, changes neither
\* the task map (priority, timestamps), nor the queue, nor total_topics.
C3_AddTopicIdempotent ==
    [][\A t \in Topics : \A p \in AddPrioInputs :
          add_topic(t, p) =>
             IF t \in Tracked
             THEN UNCHANGED <<active_tasks, task_queue, stats>>
             ELSE /\ Tracked' = Tracked \cup {t}
                  /\ Count(task_queue', t) = 1
                  /\ stats'.total_topics = Cardinality(Tracked')]_vars

\* C3 witness: topic "a" was added with the default priority at time 1, the
\* clock has moved on, and a second add_topic("a", 9) is about to be made.
C3_Witness ==
    /\ "a" \in Tracked
    /\ active_tasks["a"].priority = 5
    /\ active_tasks["a"].created_at < now
    /\ Count(task_queue, "a") = 1
    /\ stats.total_topics = 1

\* C4: an exception in one topic's improvement is caught: the loop goes on
\* with the next topic of the batch, every topic of the batch whose own step
\* did not raise is requeued in that cycle, the cycle ends only with the
\* batch used up, and a loop thread ends only at a cycle boundary with the
\* running flag false.
C4_StepIsolation(i) ==
    LET th == threads[i]
        th2 == threads'[i]
    IN /\ (th.pc \in {"improve", "write"} /\ th2.failed # th.failed) =>
             /\ th2.batch = Tail(th.batch)
             /\ th2.selected = th.selected
             /\ th2.pc = IF Tail(th.batch) = <<>> THEN "check" ELSE "improve"
       /\ (th.pc \in {"improve", "write"} /\ th2 # th /\ th2.failed = th.failed) =>
             /\ th2.batch = th.batch
             /\ th2.pc \in {"write", "requeue"}
       /\ (th.pc = "requeue" /\ th2 # th) =>
             /\ Head(th.batch) \in Range(task_queue')
             /\ th2.batch = Tail(th.batch)
             /\ th2.failed = th.failed
       /\ (th.pc # "check" /\ th2.pc = "check" /\ th.pc # "none") =>
             th2.batch = <<>>
       /\ (th.pc # "none" /\ th2.pc = "none") => (th.pc = "check" /\ ~running)

C4_FaultIsolation == [][\A i \in 1..MaxThreads : C4_StepIsolation(i)]_vars

\* C4 witness: a cycle of two topics has ended in which one step raised and
\* the other topic was processed and is back in the queue.
C4_Witness ==
    \E i \in 1..MaxThreads :
       /\ threads[i].pc = "check"
       /\ Cardinality(threads[i].selected) = 2
       /\ Cardinality(threads[i].failed) = 1
       /\ Range(task_queue) = threads[i].selected \ threads[i].failed

\* C5: a fact inserted with a confidence in [0,1] keeps a confidence in
\* [0,1] through improvement cycles interleaved with foreground writes, and
\* no improvement step writes more than 0.9.
C5_ConfidenceStaysInRange ==
    /\ \A id \in DOMAIN semantic_memory :
          stored_confidence[id] \in 0..100 =>
             semantic_memory[id].confidence \in 0..100
    /\ \A i \in 1..MaxThreads :
          threads[i].pending # <<>> => threads[i].pending[1].confidence <= 90

----------------------------------------------------------------------------
(* Claims about skills *)

\* The fraction (n+1)/(n+m+2), written out.
Estimator(n, m) == <<n + 1, n + m + 2>>

C6_CountsAndConfidence ==
    /\ DOMAIN skill_history = DOMAIN skill_memory
    /\ \A name \in DOMAIN skill_memory :
         LET row == skill_memory[name]
             n == skill_history[name].successes
             m == skill_history[name].failures
         IN /\ row.success_count = n
            /\ row.failure_count = m
            /\ n + m >= 1 => FracEq(row.confidence, Estimator(n, m))
            /\ (n = 4 /\ m = 1) => FracEq(row.confidence, <<5, 7>>)
            /\ (n = 1 /\ m = 0) => 2 * row.confidence[1] > row.confidence[2]

C6_RowsOnlyByUpsert ==
    DOMAIN skill_memory' /= DOMAIN skill_memory
        => \E name \in SkillNames, c \in SkillConfInputs : add_skill(name, c)

\* C6: after an upsert and then n successes and m failures in any order
\* (n + m >= 1) the row holds success_count n, failure_count m and
\* confidence (n+1)/(n+m+2): 5/7 after 4 and 1, above 1/2 after one success.
\* Recording an outcome on an unknown name creates no row: rows appear by
\* upsert only.
C6_SkillOutcomes ==
    []C6_CountsAndConfidence /\ [][C6_RowsOnlyByUpsert]_vars

C6_Witness ==
    /\ "s" \in DOMAIN skill_memory
    /\ "t" \notin DOMAIN skill_memory
    /\ skill_history["s"] = [successes |-> 4, failures |-> 1]
    /\ skill_memory["s"].confidence = <<5, 7>>

\* The tables of skill rows a reader can see: the committed one and the one
\* inside the transaction of a consolidation run.
SkillTablesInSight == {skill_memory} \cup (IF cons.txn THEN {cons.skills} ELSE {})

IsEstimator(row) ==
    FracEq(row.confidence, Estimator(row.success_count, row.failure_count))

\* C7 as stated: every skill row, in every reachable state, has
\* confidence = (success_count+1)/(success_count+failure_count+2).
C7_AlwaysEstimator ==
    \A table \in SkillTablesInSight : \A name \in DOMAIN table : IsEstimator(table[name])

C7_EstimatorOnceRecorded ==
    \A table \in SkillTablesInSight : \A name \in DOMAIN table :
        table[name].success_count + table[name].failure_count >= 1
            => IsEstimator(table[name])

C7_UpsertStoresSupplied ==
    \A name \in SkillNames, c \in SkillConfInputs :
        add_skill(name, c) =>
            /\ skill_memory'[name].confidence = c
            /\ skill_memory'[name].success_count = 0
            /\ skill_memory'[name].failure_count = 0

\* C7, amended: every skill row with at least one outcome recorded since
\* its upsert has confidence = (success_count+1)/(success_count+
\* failure_count+2), in the store and inside a consolidation run; an upsert
\* stores the supplied confidence with both counts 0.
C7_EstimatorAfterOutcome ==
    []C7_EstimatorOnceRecorded /\ [][C7_UpsertStoresSupplied]_vars

C7_Witness ==
    /\ "t" \notin DOMAIN skill_memory
    /\ "s" \in DOMAIN skill_memory
    /\ skill_memory["s"].id = 2
    /\ skill_memory["s"].success_count = 1
    /\ skill_memory["s"].failure_count = 1
    /\ cons.txn
    /\ cons.skills["s"].tier = "HOT"

----------------------------------------------------------------------------
(* Claims about the consolidation steps *)

\* State just after the deduplication step of a run.
AfterDedup == cons.pc = "update_tiers"

\* Same topic and same first 50 characters of fact text.
SameTopicAndPrefix(r1, r2) == r1.topic = r2.topic /\ r1.fact.head = r2.fact.head

\* The members, before the step, of the group of row id.
OriginalGroup(id) ==
    {o \in DOMAIN cons.before_sem :
        SameTopicAndPrefix(cons.before_sem[o], cons.before_sem[id])}

\* C8: after the deduplication step no two rows share topic and first 50
\* characters; of each group of more than one row only the lowest id is
\* left, with the greatest confidence of the group; rows outside such
\* groups are unchanged; the reported count is the number of rows deleted.
C8_DedupStep ==
    AfterDedup =>
        LET before == cons.before_sem
            after == ViewSem
        IN /\ DOMAIN after \subseteq DOMAIN before
           /\ \A i \in DOMAIN after : \A j \in DOMAIN after :
                 SameTopicAndPrefix(after[i], after[j]) => i = j
           /\ \A id \in DOMAIN before :
                 IF Cardinality(OriginalGroup(id)) > 1
                 THEN /\ id \in DOMAIN after <=> (\A o \in OriginalGroup(id) : id <= o)
                      /\ id \in DOMAIN after =>
                            /\ \A o \in OriginalGroup(id) :
                                  after[id].confidence >= before[o].confidence
                            /\ \E o \in OriginalGroup(id) :
                                  after[id].confidence = before[o].confidence
                            /\ after[id].topic = before[id].topic
                            /\ after[id].fact = before[id].fact
                            /\ after[id].tier = before[id].tier
                 ELSE id \in DOMAIN after /\ after[id] = before[id]
           /\ cons.operations[3] =
                 Reported("consolidate_semantic",
                          Cardinality(DOMAIN before) - Cardinality(DOMAIN after))

\* Three rows of one group, the lowest id with the least confidence and a
\* text that differs after the prefix, collapsed to one row.
C8_Witness ==
    /\ AfterDedup
    /\ DOMAIN cons.before_sem = 1..3
    /\ OriginalGroup(1) = 1..3
    /\ cons.before_sem[1].confidence = 30
    /\ cons.before_sem[2].confidence = 90
    /\ cons.before_sem[3].confidence = 60
    /\ cons.before_sem[1].fact /= cons.before_sem[2].fact
    /\ DOMAIN ViewSem = {1}
    /\ ViewSem[1].confidence = 90
    /\ cons.operations[3].count = 2

RECURSIVE SumOfAccess(_, _)
SumOfAccess(table, ids) ==
    IF ids = {} THEN 0
    ELSE LET id == CHOOSE x \in ids : TRUE
         IN table[id].access_count + SumOfAccess(table, ids \ {id})

\* C9: after deduplication the row left of a group has the sum of the
\* access_count values of all original members of the group.
C9_SurvivorHasSumOfAccess ==
    AfterDedup =>
        \A id \in DOMAIN ViewSem :
            Cardinality(OriginalGroup(id)) > 1 =>
                ViewSem[id].access_count = SumOfAccess(cons.before_sem, OriginalGroup(id))

\* State just after the tier step of a run.
AfterTiers == cons.pc = "vacuum"

TierChanged(before, after) == {k \in DOMAIN before : after[k].tier /= before[k].tier}

WithinSevenDays(row) ==
    row.last_used /= NoValue /\ now - row.last_used[1] < 7 * 24

\* C10: one pass of the tier step turns every WARM fact with access_count
\* above 10 HOT and every HOT fact with access_count of 10 or less WARM,
\* and every WARM skill used within 7 days HOT; nothing else changes;
\* afterwards a fact that is not COLD is HOT exactly when its access_count
\* is above 10, and the reported count is the number of rows whose tier
\* changed.
C10_TierStep ==
    AfterTiers =>
        LET sem == cons.before_sem
            skills == cons.before_skills
        IN /\ DOMAIN cons.sem = DOMAIN sem
           /\ DOMAIN cons.skills = DOMAIN skills
           /\ \A id \in DOMAIN sem :
                 /\ cons.sem[id] = [sem[id] EXCEPT !.tier = cons.sem[id].tier]
                 /\ (sem[id].tier = "WARM" /\ sem[id].access_count > 10)
                       => cons.sem[id].tier = "HOT"
                 /\ (sem[id].tier = "HOT" /\ sem[id].access_count <= 10)
                       => cons.sem[id].tier = "WARM"
                 /\ sem[id].tier = "COLD" => cons.sem[id].tier = "COLD"
                 /\ cons.sem[id].tier /= "COLD"
                       => (cons.sem[id].tier = "HOT" <=> sem[id].access_count > 10)
           /\ \A name \in DOMAIN skills :
                 /\ cons.skills[name] = [skills[name] EXCEPT !.tier = cons.skills[name].tier]
                 /\ cons.skills[name].tier =
                       IF skills[name].tier = "WARM" /\ WithinSevenDays(skills[name])
                       THEN "HOT" ELSE skills[name].tier
           /\ cons.operations[4] =
                 Reported("update_tiers",
                          Cardinality(TierChanged(sem, cons.sem))
                          + Cardinality(TierChanged(skills, cons.skills)))

\* A WARM fact with access_count 11 ended HOT, a HOT fact with access_count
\* 5 ended WARM, a WARM skill used 167 hours ago ended HOT, in one pass.
C10_Witness ==
    /\ AfterTiers
    /\ DOMAIN cons.before_sem = 1..2
    /\ cons.before_sem[1].tier = "WARM" /\ cons.before_sem[1].access_count = 11
    /\ cons.before_sem[2].tier = "HOT" /\ cons.before_sem[2].access_count = 5
    /\ cons.sem[1].tier = "HOT"
    /\ cons.sem[2].tier = "WARM"
    /\ "s" \in DOMAIN cons.before_skills
    /\ cons.before_skills["s"].tier = "WARM"
    /\ cons.before_skills["s"].last_used = <<now - 167>>
    /\ cons.skills["s"].tier = "HOT"
    /\ cons.operations[4].count = 3

----------------------------------------------------------------------------
(* Claims about the order and the timing of processing *)

IndexOf(s, x) == CHOOSE k \in 1..Len(s) : s[k] = x

C11_Step(i) ==
    LET th == threads[i]
        th2 == threads'[i]
        prio(t) == active_tasks[t].priority
    IN /\ (th.pc = "check" /\ th2.pc = "improve") =>
             /\ Range(th2.batch) =
                   {task_queue[k] : k \in 1..Min2(batch_size, Len(task_queue))}
             /\ \A k \in 1..Len(th2.batch) : \A l \in 1..Len(th2.batch) :
                   k < l =>
                      /\ prio(th2.batch[k]) >= prio(th2.batch[l])
                      /\ prio(th2.batch[k]) = prio(th2.batch[l]) =>
                            IndexOf(task_queue, th2.batch[k])
                               < IndexOf(task_queue, th2.batch[l])
       /\ (th.pc \in {"improve", "write", "requeue"} /\ th2 # th) =>
             th2.batch \in {th.batch, Tail(th.batch)}
       /\ (th.pc = "write" /\ th2.pc = "requeue") =>
             \A id \in DOMAIN semantic_memory :
                semantic_memory'[id] # semantic_memory[id] =>
                   Lower(semantic_memory[id].topic) = Lower(Head(th.batch))

\* C11: the batch a cycle selects is in non-increasing order of the
\* priorities the tasks have at the selection, ties in queue order; the
\* loop then improves the head of what is left of the batch, one topic
\* after the other, in that order.
C11_PriorityOrder == [][\A i \in 1..MaxThreads : C11_Step(i)]_vars

\* A batch of a priority-9 topic ahead of a priority-3 topic, the first
\* being improved.
C11_Witness ==
    \E i \in 1..MaxThreads :
       /\ threads[i].pc = "write"
       /\ Len(threads[i].batch) = 2
       /\ active_tasks[threads[i].batch[1]].priority = 9
       /\ active_tasks[threads[i].batch[2]].priority = 3

\* C12: a topic made high-priority while a batch is in flight (add_topic with
\* priority 9 on an untracked topic, update_priority with p >= 8 on a tracked
\* one) is in the very next batch that is selected: no selection passes it over.
C12_BoundedStaleness == \A t \in DOMAIN urgent : urgent[t] = 0

(* stop() *)

\* The loop, given its turn again and again (the thread is scheduled).
LoopStep(i) == Loop(i) /\ UNCHANGED <<urgent, skillVars, cons, sideVars>>

SpecLive == Init /\ [][Next]_vars /\ \A i \in 1..MaxThreads : WF_vars(LoopStep(i))

C13_BatchStates == {"improve", "write", "requeue"}

\* The flag is read at the cycle boundary only: a thread ends only there and
\* only with the flag false, and a thread that reads it false takes no batch.
C13_FlagStep(i) ==
    LET th == threads[i]
        th2 == threads'[i]
    IN /\ (th.pc # "none" /\ th2.pc = "none") => (th.pc = "check" /\ ~running)
       /\ (th.pc = "check" /\ ~running /\ th2 # th) =>
             (th2 = NoThread /\ task_queue' = task_queue)
       /\ (th.pc \in C13_BatchStates /\ th2 # th) =>
             (th2.pc \in C13_BatchStates \cup {"check"} /\ th2.selected = th.selected)

C13_FlagBetweenCycles == [][\A i \in 1..MaxThreads : C13_FlagStep(i)]_vars

\* Once the flag is false, and unless start() sets it again, the thread ends.
C13_ThreadTerminates ==
    \A i \in 1..MaxThreads : (~running) ~> (running \/ threads[i].pc = "none")

\* C13: stop() is cooperative: a batch in flight when the flag is cleared is
\* finished, and at its end every topic that was selected in it has been put
\* back in the queue; the flag is read between cycles only, a thread that
\* reads it false selects nothing more.
C13_CooperativeStop ==
    [][\A i \in 1..MaxThreads :
          /\ C13_FlagStep(i)
          /\ (threads[i].pc \in C13_BatchStates /\ threads'[i].pc = "check" /\ ~running)
                => threads[i].selected \subseteq Range(task_queue')]_vars

----------------------------------------------------------------------------
(* MemoryDatabase: units of work on the one connection, on the sessions     *)
(* table.  Another connection can hold the file: the consolidation run once *)
(* it has written (a statement then fails after the busy timeout), or a     *)
(* reader in the middle of a fetch (the commit then fails).                 *)

MaxCalls == 4
SessionIds == {"s1", "s2"}
ContextInputs == {"c1", "c2"}

\* What a statement on MemoryDatabase.conn sees.
ViewSessions == IF conn.open THEN conn.sessions ELSE sessions

\* A failure that leaves the transaction of the connection as it is.
KeepPending(c) == c

\* conn.rollback()
Rollback(c) == ClosedConn

Call(op, id, result) == [n |-> returned.n + 1, op |-> op, id |-> id, result |-> result]

\* `with self.transaction()`: the body's statement has run (written) or has
\* raised (error); then commit, or rollback and re-raise.
Transaction(op, id, written, error, busy) ==
    IF error # ""
    THEN /\ conn' = Rollback(conn)
         /\ sessions' = sessions
         /\ returned' = Call(op, id, error)
    ELSE IF busy
    THEN /\ conn' = Rollback([open |-> TRUE, sessions |-> written])
         /\ sessions' = sessions
         /\ returned' = Call(op, id, "OperationalError")
    ELSE /\ conn' = ClosedConn
         /\ sessions' = written
         /\ returned' = Call(op, id, "ok")

\* The statement cannot take the write lock while another connection has it.
Locked == IF cons.txn THEN "OperationalError" ELSE ""

\* INSERT INTO sessions (id, context): start_time is CURRENT_TIMESTAMP,
\* end_time and summary are NULL.
SessionRow(context) ==
    [context |-> context, ended |-> FALSE, start_time |-> now, summary |-> NoValue]

create_session(session_id, context, busy) ==
    /\ returned.n < MaxCalls
    /\ LET view == ViewSessions
           error == IF Locked # "" THEN Locked
                    ELSE IF session_id \in DOMAIN view THEN "IntegrityError"
                    ELSE ""
       IN /\ Transaction("create_session", session_id,
                         Put(view, session_id, SessionRow(context)), error, busy)
          /\ added' = [added EXCEPT
                          !.sessions = IF error = "" /\ ~busy THEN @ + 1 ELSE @]
    /\ UNCHANGED <<schedVars, storeVars, skillVars, cons, callers, consolidation_log,
                   saveVars, outputs, status_call, episodic_memory, archive_file>>

\* UPDATE sessions SET end_time = CURRENT_TIMESTAMP, summary = ? WHERE id = ?
EndedWith(view, session_id, summary) ==
    [k \in DOMAIN view |->
        IF k = session_id THEN [view[k] EXCEPT !.ended = TRUE, !.summary = summary]
        ELSE view[k]]

\* end_session(session_id): summary is None.
Ended(view, session_id) == EndedWith(view, session_id, NoValue)

end_session(session_id, busy) ==
    /\ returned.n < MaxCalls
    /\ Transaction("end_session", session_id, Ended(ViewSessions, session_id),
                   Locked, busy)
    /\ UNCHANGED <<schedVars, storeVars, skillVars, cons, callers, consolidation_log, saveVars, outputs, lifeVars>>

InitStore == InitSkill

NextStore ==
    \/ \E id \in SessionIds, c \in ContextInputs, busy \in BOOLEAN :
          create_session(id, c, busy)
    \/ \E id \in SessionIds, busy \in BOOLEAN : end_session(id, busy)
    \/ Consolidate

SpecStore == InitStore /\ [][NextStore]_vars

\* The effect a call has when it succeeds, on the committed table.
C14_Effect(call, table) ==
    IF call.op = "create_session"
    THEN {Put(table, call.id, SessionRow(c)) : c \in ContextInputs}
    ELSE {Ended(table, call.id)}

\* C14: a MemoryDatabase write that fails raises and leaves every table as it
\* was before the call, with nothing pending on the connection; create_session
\* with an id that exists fails; a write that succeeds commits its own effect
\* and nothing else.
C14_FailedCallLeavesNoTrace ==
    [][(returned'.n # returned.n) =>
          /\ conn' = ClosedConn
          /\ conn = ClosedConn
          /\ <<semantic_memory, skill_memory>>' = <<semantic_memory, skill_memory>>
          /\ (returned'.op = "create_session" /\ returned'.id \in DOMAIN sessions)
                => returned'.result # "ok"
          /\ returned'.result # "ok" => sessions' = sessions
          /\ returned'.result = "ok" => sessions' \in C14_Effect(returned', sessions)]_vars

C14_Witness ==
    /\ returned.result = "IntegrityError"
    /\ returned.n >= 3
    /\ Cardinality(DOMAIN sessions) = 2

----------------------------------------------------------------------------
(* MemoryDatabase under several callers.  sqlite3.connect is called with    *)
(* its defaults, so the connection refuses every thread but the one that    *)
(* opened it; a MemoryDatabase of its own on the same file runs the SELECT  *)
(* and the UPDATE of update_skill_stats as two statements.                  *)

\* update_skill_stats on the connection of another thread: conn.cursor()
\* raises, and so does the rollback of transaction().
RecordRejected(c, skill_name) ==
    /\ c = "thread"
    /\ returned.n < MaxCalls
    /\ returned' = Call("update_skill_stats", skill_name, "ProgrammingError")
    /\ UNCHANGED <<schedVars, storeVars, skillVars, cons, sessions, conn, callers, consolidation_log, saveVars, outputs, lifeVars>>

\* update_skill_stats, the SELECT: the counts are read into locals.
RecordRead(c, skill_name, success) ==
    /\ c # "thread"
    /\ callers[c].pc = "idle"
    /\ returned.n < MaxCalls
    /\ IF skill_name \in DOMAIN skill_memory
       THEN /\ callers' = [callers EXCEPT ![c] =
                             [pc |-> "read", skill_name |-> skill_name,
                              success |-> success, row |-> skill_memory[skill_name]]]
            /\ UNCHANGED returned
       ELSE /\ returned' = Call("update_skill_stats", skill_name, "ok")
            /\ UNCHANGED callers
    /\ UNCHANGED <<schedVars, storeVars, skillVars, cons, sessions, conn, consolidation_log, saveVars, outputs, lifeVars>>

\* The columns the UPDATE sets, computed from the counts read before.
UpdateStats(current, read, success, t) ==
    LET new == RecordedRow(read, success, NoValue, t)
    IN [current EXCEPT !.success_count = new.success_count,
                       !.failure_count = new.failure_count,
                       !.confidence = new.confidence,
                       !.avg_duration_ms = new.avg_duration_ms,
                       !.last_used = new.last_used]

\* update_skill_stats, the UPDATE and the commit.
RecordWrite(c) ==
    /\ callers[c].pc = "read"
    /\ ~cons.txn
    /\ LET name == callers[c].skill_name
           success == callers[c].success
       IN /\ skill_memory' =
                IF name \in DOMAIN skill_memory
                THEN [skill_memory EXCEPT ![name] =
                         UpdateStats(@, callers[c].row, success, now)]
                ELSE skill_memory
          /\ skill_history' = [skill_history EXCEPT
                 ![name].successes = IF success THEN @ + 1 ELSE @,
                 ![name].failures = IF success THEN @ ELSE @ + 1]
          /\ returned' = Call("update_skill_stats", name, "ok")
    /\ callers' = [callers EXCEPT ![c] = IdleCaller]
    /\ UNCHANGED <<schedVars, storeVars, skill_seq, cons, sessions, conn, consolidation_log, saveVars, outputs, lifeVars>>

NextCallers ==
    \/ \E n \in SkillNames, c \in SkillConfInputs : add_skill(n, c)
    \/ \E n \in SkillNames : RecordRejected("thread", n)
    \/ \E c \in Callers, n \in SkillNames, ok \in BOOLEAN : RecordRead(c, n, ok)
    \/ \E c \in Callers : RecordWrite(c)

SpecCallers == InitSkill /\ [][NextCallers]_vars

\* C15: concurrent callers of the store are serialized: none is turned away,
\* and no recorded outcome is lost: every skill row counts exactly the
\* outcomes whose update_skill_stats call returned since its upsert.
C15_NoLostUpdate ==
    /\ returned.result # "ProgrammingError"
    /\ \A name \in DOMAIN skill_memory :
          /\ skill_memory[name].success_count = skill_history[name].successes
          /\ skill_memory[name].failure_count = skill_history[name].failures

\* The same without the caller that is turned away: one call's update is
\* overwritten by another's.
C15_CountsMatchReturnedCalls ==
    \A name \in DOMAIN skill_memory :
        skill_memory[name].success_count + skill_memory[name].failure_count
            = skill_history[name].successes + skill_history[name].failures

----------------------------------------------------------------------------
(* Claims about a consolidation run that fails *)

\* The step of consolidate() that ends the run in the except clause.
RunFails == cons.pc = "vacuum" /\ cons'.pc = "idle" /\ cons'.status = "error"

\* C16: when a step of consolidate raises, the run returns a report with
\* status error that lists the steps completed before the failure, and what
\* those steps wrote stays applied in the store after the run has returned.
C16_CompletedStepsStay ==
    [][RunFails =>
          /\ cons'.operations = cons.operations
          /\ Len(cons.operations) = 4
          /\ semantic_memory' = cons.sem
          /\ skill_memory' = cons.skills]_vars

\* The step on which a consolidate() call returns.
RunReturns == cons.pc = "vacuum" /\ cons'.pc = "idle"

\* C17: every consolidate run, ended in success or in error, appends exactly
\* one record to consolidation_log, with the sum of the run's step counts and
\* the run's status; the records already there are never changed.
C17_OneLogRecordPerRun ==
    [][IF RunReturns
       THEN consolidation_log' =
               Append(consolidation_log,
                      LogRecord(RecordsProcessed(cons'.operations), cons'.status))
       ELSE consolidation_log' = consolidation_log]_vars

----------------------------------------------------------------------------
(* BackgroundLearner.save_state: a connection of its own, DELETE and one    *)
(* INSERT per task under self.lock, one commit at the end.                  *)

\* A connection in autocommit mode: every statement is durable at once.
Autocommit(written, committed) == written

\* What the file holds after a statement of the open transaction: the
\* sqlite3 module has begun a transaction before the DELETE, so nothing
\* changes before the commit.
AfterStatement(written, committed) == committed

\* The row save_state inserts for a task.
SavedRow(task) ==
    [priority |-> task.priority, created_at |-> task.created_at,
     last_updated |-> task.last_updated, facts_count |-> task.facts_count,
     improvement_rounds |-> task.improvement_rounds]

\* save_state holds self.lock from the DELETE to the last INSERT, get_status
\* while it builds its dict.
LockFree == saver.pc = "idle" /\ status_call.pc = "idle"

\* save_state up to the DELETE (CREATE TABLE IF NOT EXISTS leaves an existing
\* table alone).
SaveDelete ==
    /\ saver.pc = "idle"
    /\ saver' = [pc |-> "insert", pending |-> <<>>, result |-> "none"]
    /\ learning_state' = AfterStatement(<<>>, learning_state)
    /\ UNCHANGED <<schedVars, storeVars, skillVars, cons, sessionVars, callers,
                   consolidation_log, outputs, lifeVars>>

\* One turn of `for topic, task in self.active_tasks.items()`.
SaveInsert ==
    /\ saver.pc = "insert"
    /\ \E t \in DOMAIN active_tasks \ DOMAIN saver.pending :
          LET written == Put(saver.pending, t, SavedRow(active_tasks[t]))
          IN /\ saver' = [saver EXCEPT !.pending = written]
             /\ learning_state' = AfterStatement(written, learning_state)
    /\ UNCHANGED <<schedVars, storeVars, skillVars, cons, sessionVars, callers,
                   consolidation_log, outputs, lifeVars>>

\* The loop is over: the lock is released, conn.commit(), conn.close().
SaveCommit ==
    /\ saver.pc = "insert"
    /\ DOMAIN active_tasks \subseteq DOMAIN saver.pending
    /\ saver' = [IdleSaver EXCEPT !.result = "ok"]
    /\ learning_state' = saver.pending
    /\ UNCHANGED <<schedVars, storeVars, skillVars, cons, sessionVars, callers,
                   consolidation_log, outputs, lifeVars>>

\* A statement or the commit raises (the file is locked, the disk is full),
\* or the process dies: the finally clause closes the connection, or the
\* journal is played back at the next open; the transaction is gone.
SaveFail ==
    /\ saver.pc = "insert"
    /\ saver' = [IdleSaver EXCEPT !.result = "error"]
    /\ UNCHANGED learning_state
    /\ UNCHANGED <<schedVars, storeVars, skillVars, cons, sessionVars, callers,
                   consolidation_log, outputs, lifeVars>>

save_state == SaveDelete \/ SaveInsert \/ SaveCommit \/ SaveFail

\* The operations that take self.lock wait while save_state holds it.
SaveSchedNext ==
    \/ LockFree /\ \E t \in Topics, p \in AddPrioInputs : add_topic(t, p)
    \/ LockFree /\ \E t \in Topics, p \in PrioInputs : update_priority(t, p)
    \/ start
    \/ \E i \in 1..MaxThreads :
          \/ LockFree /\ LoopCheck(i)
          \/ ImproveRead(i)
          \/ ImproveWrite(i)
          \/ LockFree /\ Requeue(i)
    \/ Tick

NextSave ==
    \/ SaveSchedNext /\ UNCHANGED <<urgent, skillVars, cons, sideVars>>
    \/ save_state

SpecSave == Init /\ [][NextSave]_vars

\* The task map as save_state writes it.
SnapshotOf(tasks) == [t \in DOMAIN tasks |-> SavedRow(tasks[t])]

\* C18: save_state replaces the snapshot atomically: the table changes only
\* when a call commits, and then holds one row per tracked topic with the
\* task's fields of that instant; a call that fails or dies after the DELETE
\* leaves the table as the previous call left it.
C18_AtomicReplace ==
    [][/\ (saver.pc = "insert" /\ saver'.result = "ok") =>
             learning_state' = SnapshotOf(active_tasks)
       /\ ~(saver.pc = "insert" /\ saver'.result = "ok") =>
             learning_state' = learning_state]_vars

C18_Witness ==
    /\ saver.pc = "insert"
    /\ Cardinality(DOMAIN learning_state) = 1
    /\ Cardinality(DOMAIN saver.pending) = 1
    /\ Cardinality(DOMAIN active_tasks) = 2
    /\ \E t \in DOMAIN learning_state : learning_state[t] # SavedRow(active_tasks[t])

----------------------------------------------------------------------------
(* A BackgroundLearner constructed on an existing store: the process is     *)
(* started again on stores of facts of several counts, confidences and      *)
(* ages, in several time zones, with a snapshot written by save_state.      *)

\* Time zones of the process and their hours ahead of UTC.
TimeZones == {"UTC", "Asia/Karachi", "America/Los_Angeles"}
UtcOffset(tz) == IF tz = "UTC" THEN 0 ELSE IF tz = "Asia/Karachi" THEN 5 ELSE -8

\* Hours by which the facts near the threshold are older or younger than 7 days.
NearHours == 3

Five(c) == <<c, c, c, c, c>>

\* The confidences of the facts of one topic: none, one, two, or five facts.
GroupConfs == {<<>>, <<45>>, <<85>>, <<95, 55>>, Five(45), Five(65), Five(75), Five(85)}

\* created_at of the first fact of a topic and of its other facts.
GroupAges(t) ==
    {<<t, t>>, <<t - SevenDays - NearHours, t - SevenDays - NearHours>>,
     <<t - SevenDays + NearHours, t - SevenDays + NearHours>>,
     <<t - SevenDays - NearHours, t>>}

GroupRows(topic, confs, ages) ==
    [k \in 1..Len(confs) |->
        SemanticRow(topic, [head |-> "p", tail |-> ""], confs[k],
                    IF k = 1 THEN ages[1] ELSE ages[2])]

\* A fact that is not WARM, of low confidence.
ColdRow(topic, t) ==
    [SemanticRow(topic, [head |-> "q", tail |-> ""], 10, t) EXCEPT !.tier = "COLD"]

InitLoad ==
    /\ NoSkillsNoRun
    /\ now = Today
    /\ \E ca \in GroupConfs, cb \in {<<>>, <<85>>, Five(45)},
          aa \in GroupAges(now), cold \in BOOLEAN :
          semantic_memory =
              GroupRows("a", ca, aa) \o GroupRows("A", cb, <<now, now>>)
                 \o (IF cold THEN <<ColdRow("a", now)>> ELSE <<>>)
    /\ sem_seq = Len(semantic_memory)
    /\ stored_confidence = [id \in DOMAIN semantic_memory |-> semantic_memory[id].confidence]
    /\ Connected
    /\ Constructed(semantic_memory)

\* The process ends and a new one constructs BackgroundLearner on the same
\* file, in time zone tz: __init__ and _load_tasks.
restart(tz) ==
    /\ saver.pc = "idle"
    /\ returned.n < MaxCalls
    /\ LET loaded == LoadTasks(semantic_memory, now, LoadCutoff(now, UtcOffset(tz)))
       IN /\ active_tasks' = loaded.active_tasks
          /\ task_queue' = loaded.task_queue
          /\ stats' = [InitStats EXCEPT
                          !.total_topics = Cardinality(DOMAIN loaded.active_tasks)]
    /\ running' = FALSE
    /\ threads' = [i \in 1..MaxThreads |-> NoThread]
    /\ returned' = Call("BackgroundLearner", tz, "ok")
    /\ UNCHANGED <<now, urgent, storeVars, skillVars, cons, sessions, conn, callers,
                   consolidation_log, saveVars, outputs, lifeVars>>

NextLoad ==
    \/ (\E t \in Topics : LockFree /\ add_topic(t, <<9>>))
          /\ UNCHANGED <<urgent, skillVars, cons, sideVars>>
    \/ (\E t \in Topics : LockFree /\ update_priority(t, 9))
          /\ UNCHANGED <<urgent, skillVars, cons, sideVars>>
    \/ save_state
    \/ \E tz \in TimeZones : restart(tz)

SpecLoad == InitLoad /\ [][NextLoad]_vars

\* The facts of a topic that count: tier WARM.
C19_Facts(topic) ==
    {id \in DOMAIN semantic_memory :
        semantic_memory[id].topic = topic /\ semantic_memory[id].tier = "WARM"}

RECURSIVE C19_Sum(_)
C19_Sum(ids) ==
    IF ids = {} THEN 0
    ELSE LET id == CHOOSE x \in ids : TRUE
         IN semantic_memory[id].confidence + C19_Sum(ids \ {id})

\* Average below a number of hundredths.
C19_AvgBelow(topic, hundredths) ==
    C19_Sum(C19_Facts(topic)) < hundredths * Cardinality(C19_Facts(topic))

\* Some WARM fact, and average confidence below 0.8 or newest fact older
\* than 7 days.
C19_Qualifies(topic) ==
    /\ C19_Facts(topic) # {}
    /\ \/ C19_AvgBelow(topic, 80)
       \/ \A id \in C19_Facts(topic) : now - semantic_memory[id].created_at > 7 * 24

C19_F(topic) ==
    IF Cardinality(C19_Facts(topic)) < 5 THEN 6
    ELSE IF C19_AvgBelow(topic, 50) THEN 8
    ELSE IF C19_AvgBelow(topic, 70) THEN 7
    ELSE 3

C19_Constructs == returned'.n # returned.n /\ returned'.op = "BackgroundLearner"

C19_Rebuilt ==
    /\ DOMAIN active_tasks' = {t \in Topics : C19_Qualifies(t)}
    /\ Range(task_queue') = DOMAIN active_tasks'
    /\ Len(task_queue') = Cardinality(DOMAIN active_tasks')
    /\ \A t \in DOMAIN active_tasks' :
          /\ active_tasks'[t].priority = C19_F(t)
          /\ active_tasks'[t].facts_count = Cardinality(C19_Facts(t))
          /\ active_tasks'[t].improvement_rounds = 0

\* C19: a scheduler constructed on an existing store tracks exactly the
\* topics with WARM facts whose average confidence is below 0.8 or whose
\* newest fact is older than 7 days, each queued once with priority
\* f(fact_count, avg_confidence); the snapshot of save_state plays no part.
C19_RehydratedFromFacts == [][C19_Constructs => C19_Rebuilt]_vars

\* The same for a process whose local time is UTC.
C19_RehydratedUnderUTC ==
    [][(C19_Constructs /\ returned'.id = "UTC") => C19_Rebuilt]_vars

\* A topic saved with priority 9 is gone after the restart, another is back
\* with the priority of its facts.
C19_SnapshotIgnored ==
    /\ returned.op = "BackgroundLearner"
    /\ DOMAIN learning_state = {"a", "A"}
    /\ learning_state["A"].priority = 9
    /\ DOMAIN active_tasks = {"a"}
    /\ active_tasks["a"].priority = 8
    /\ learning_state["a"].priority = 9

----------------------------------------------------------------------------
(* export_knowledge_base against get_semantic_memories, on stores of up to  *)
(* a few more facts than the default limit of the query.                    *)

MaxExportRows == 101
QueryLimit == 100    \* get_semantic_memories(limit: int = 100)
ExportMin == 50      \* WHERE confidence >= 0.5
TopicFilters == {NoValue, <<"a">>}
MinConfidenceInputs == {0, 50}

\* `if topic`: None and "" select the query without a topic.
TopicGiven(topic) == topic # NoValue /\ topic[1] # ""

\* WHERE [topic = ? AND] confidence >= ?
Matching(table, topic, min_confidence) ==
    {id \in DOMAIN table :
        /\ table[id].confidence >= min_confidence
        /\ TopicGiven(topic) => table[id].topic = topic[1]}

\* The sort key of ORDER BY confidence DESC, access_count DESC.
OrderKey(row) == <<row.confidence, row.access_count>>

KeyFirst(x, y) == x[1] > y[1] \/ (x[1] = y[1] /\ x[2] >= y[2])

RECURSIVE KeysInOrder(_)
KeysInOrder(keys) ==
    IF keys = {} THEN <<>>
    ELSE LET first == CHOOSE x \in keys : \A y \in keys : KeyFirst(x, y)
         IN <<first>> \o KeysInOrder(keys \ {first})

\* The ids from 1 to the last one given out.
RowIds == [k \in 1..sem_seq |-> k]

RECURSIVE RowsByKey(_, _, _)
RowsByKey(table, ids, keys) ==
    IF keys = <<>> THEN <<>>
    ELSE SelectSeq(RowIds, LAMBDA id : id \in ids /\ OrderKey(table[id]) = Head(keys))
            \o RowsByKey(table, ids, Tail(keys))

\* The ids in the order of the query; rows that tie come in rowid order.
QueryOrder(table, ids) ==
    RowsByKey(table, ids, KeysInOrder({OrderKey(table[id]) : id \in ids}))

\* A query without LIMIT.
NoLimit(rows, limit) == rows

\* LIMIT ?
Limit(rows, limit) == SubSeq(rows, 1, Min2(limit, Len(rows)))

\* The ids of the rows get_semantic_memories returns.
QueryResult(table, topic, min_confidence, limit) ==
    Limit(QueryOrder(table, Matching(table, topic, min_confidence)), limit)

\* Brain.recall_facts / MemoryDatabase.get_semantic_memories with the default limit.
get_semantic_memories(topic, min_confidence) ==
    /\ outputs' = [outputs EXCEPT
           !.recalled = QueryResult(semantic_memory, topic, min_confidence, QueryLimit),
           !.query = <<topic, min_confidence>>,
           !.query_at = sem_seq]
    /\ UNCHANGED <<schedVars, storeVars, skillVars, cons, sessionVars, callers,
                   consolidation_log, saveVars, lifeVars>>

\* The ids of SELECT * FROM semantic_memory WHERE confidence >= 0.5, in rowid order.
ExportedRows(table) ==
    LET ids == {id \in DOMAIN table : table[id].confidence >= ExportMin}
    IN SelectSeq(RowIds, LAMBDA id : id \in ids)

export_knowledge_base ==
    /\ outputs' = [outputs EXCEPT
           !.file = ExportedRows(semantic_memory),
           !.semantic_count = Len(ExportedRows(semantic_memory)),
           !.export_at = sem_seq]
    /\ UNCHANGED <<schedVars, storeVars, skillVars, cons, sessionVars, callers,
                   consolidation_log, saveVars, lifeVars>>

\* add_semantic_memory on the store of this comparison, an hour after the
\* insert before it.
add_semantic_memory(topic, confidence) ==
    /\ now < MaxTime
    /\ now' = now + 1
    /\ AddSemantic(topic, [head |-> "p", tail |-> ""], confidence)
    /\ UNCHANGED <<active_tasks, task_queue, running, threads, stats, urgent,
                   skillVars, cons, sideVars>>

\* n facts of topic "a" with confidence 0.6, then m of topic "A" with 0.4.
ExportStore(n, m) ==
    [id \in 1..(n + m) |->
        IF id <= n THEN SemanticRow("a", [head |-> "p", tail |-> ""], 60, 1)
        ELSE SemanticRow("A", [head |-> "p", tail |-> ""], 40, 1)]

\* A Brain without background learning: no topic is tracked.
NoLearner == Constructed(<<>>)

InitExport ==
    /\ NoSkillsNoRun
    /\ now = 1
    /\ \E n \in {0, 1, MaxExportRows - 2, MaxExportRows - 1, MaxExportRows}, m \in 0..1 :
          semantic_memory = ExportStore(n, m)
    /\ sem_seq = Cardinality(DOMAIN semantic_memory)
    /\ stored_confidence = [id \in DOMAIN semantic_memory |-> semantic_memory[id].confidence]
    /\ Connected
    /\ NoLearner

NextExport ==
    \/ \E t \in Topics, c \in {40, 60} : add_semantic_memory(t, c)
    \/ \E t \in TopicFilters, c \in MinConfidenceInputs : get_semantic_memories(t, c)
    \/ export_knowledge_base

SpecExport == InitExport /\ [][NextExport]_vars

\* The export and the default query for confidence >= 0.5 without a topic
\* were both taken on the store as it is now.
C20_BothTaken ==
    /\ outputs.export_at = sem_seq
    /\ outputs.query_at = sem_seq
    /\ outputs.query = <<NoValue, 50>>

\* C20 as stated: for any number of facts, the export file holds as many
\* semantic_memory entries as the default query for confidence >= 0.5
\* returns, and as the semantic_count of the report.
C20_ExportEqualsQuery ==
    C20_BothTaken =>
        /\ Len(outputs.file) = Len(outputs.recalled)
        /\ outputs.semantic_count = Len(outputs.file)

C20_Qualifying == {id \in DOMAIN semantic_memory : semantic_memory[id].confidence >= 50}

\* The counts of an export and a default query taken on the same store.
C20_CountsUpToLimit ==
    C20_BothTaken =>
        /\ Range(outputs.file) = C20_Qualifying
        /\ Len(outputs.file) = Cardinality(C20_Qualifying)
        /\ outputs.semantic_count = Len(outputs.file)
        /\ Range(outputs.recalled) \subseteq C20_Qualifying
        /\ Len(outputs.recalled) = Min2(Cardinality(C20_Qualifying), 100)
        /\ Len(outputs.file) = Len(outputs.recalled) <=> Cardinality(C20_Qualifying) <= 100

\* export_knowledge_base changes no row of the store.
C20_ExportReadsOnly ==
    [][outputs'.export_at # outputs.export_at => semantic_memory' = semantic_memory]_vars

\* C20, amended: the export file holds every fact with confidence >= 0.5 and
\* semantic_count is their number; the default query returns the first 100
\* of them, so the two counts are equal exactly when at most 100 facts
\* qualify; exporting changes no row of the store.
C20_ExportEqualsQueryUpToLimit == []C20_CountsUpToLimit /\ C20_ExportReadsOnly

C20_Witness ==
    /\ C20_BothTaken
    /\ Len(outputs.file) = 101
    /\ Len(outputs.recalled) = 100

----------------------------------------------------------------------------
(* self.lock: get_status builds its dict under the lock, one entry after    *)
(* the other, while the loop thread runs.  add_topic, update_priority, the  *)
(* selection and the requeue block of _process_batch take the lock;         *)
(* _improve_topic and the end of a cycle in _learning_loop do not.          *)

\* The entries of the dict of get_status that are read from shared state, in
\* the order of the dict display.
StatusFields == <<"running", "total_topics", "queued_topics", "active_topics",
                  "cycles_run", "facts_learned", "improvement_rounds", "last_cycle">>

\* The value of one entry, read now.
StatusValue(field) ==
    IF field = "running" THEN running
    ELSE IF field = "queued_topics" THEN Len(task_queue)
    ELSE IF field = "active_topics" THEN Cardinality(DOMAIN active_tasks)
    ELSE stats[field]

\* get_status: `with self.lock:`.
StatusAcquire ==
    /\ LockFree
    /\ status_call' = [pc |-> "reading", dict |-> <<>>]

\* get_status: the next entry of the dict display is evaluated.
StatusRead ==
    /\ status_call.pc = "reading"
    /\ Len(status_call.dict) < Len(StatusFields)
    /\ status_call' = [status_call EXCEPT
           !.dict = Append(@, StatusValue(StatusFields[Len(status_call.dict) + 1]))]

\* get_status: the dict is returned, the lock released.
StatusReturn ==
    /\ status_call.pc = "reading"
    /\ Len(status_call.dict) = Len(StatusFields)
    /\ status_call' = [status_call EXCEPT !.pc = "idle"]

get_status ==
    /\ StatusAcquire \/ StatusRead \/ StatusReturn
    /\ UNCHANGED <<schedVars, storeVars, skillVars, cons, sessionVars, callers,
                   consolidation_log, saveVars, outputs, episodic_memory, added,
                   archive_file>>

NextLock ==
    \/ SaveSchedNext /\ UNCHANGED <<urgent, skillVars, cons, sideVars>>
    \/ get_status

SpecLock == Init /\ [][NextLock]_vars

\* The scheduler state that the lock guards.
C21_Guarded == <<task_queue, active_tasks, stats>>

\* C21: every mutation of the queue, the task map, the task fields and the
\* statistics counters is made by a thread that holds the lock: while
\* get_status holds it nothing of them changes, so the dict it returns is the
\* state of one instant.
C21_MutationsUnderLock ==
    [][(status_call.pc = "reading" /\ status_call'.pc = "reading")
          => C21_Guarded' = C21_Guarded]_vars

\* What does hold: the queue, the task map and total_topics change only by a
\* thread that holds the lock.
C21_TasksUnderLock ==
    [][(status_call.pc = "reading" /\ status_call'.pc = "reading")
          => <<task_queue, active_tasks, stats.total_topics>>'
               = <<task_queue, active_tasks, stats.total_topics>>]_vars

----------------------------------------------------------------------------
(* The foreground calls on the scheduler, made while the store file is in   *)
(* one of three conditions: usable, locked by another connection for longer *)
(* than the busy timeout, or not to be opened (its directory is gone).      *)

StoreStates == {"ok", "locked", "unreachable"}

\* What sqlite3 raises on a store in that condition: at connect() when the
\* file cannot be opened, at the first statement that writes when it is locked.
StoreError(db) ==
    IF db = "ok" THEN "" ELSE "OperationalError"

callFrame == <<urgent, skillVars, cons, sessions, conn, callers, consolidation_log,
               outputs, lifeVars>>

\* BackgroundLearner(db_path): _load_tasks swallows every exception and
\* leaves the learner without tasks.
construct(db) ==
    /\ returned.n < MaxCalls
    /\ LET loaded == IF StoreError(db) = ""
                     THEN LoadTasks(semantic_memory, now, LoadCutoff(now, 0))
                     ELSE [task_queue |-> <<>>, active_tasks |-> <<>>]
       IN /\ active_tasks' = loaded.active_tasks
          /\ task_queue' = loaded.task_queue
          /\ stats' = [InitStats EXCEPT
                          !.total_topics = Cardinality(DOMAIN loaded.active_tasks)]
    /\ running' = FALSE
    /\ threads' = [i \in 1..MaxThreads |-> NoThread]
    /\ returned' = Call("BackgroundLearner", db, "ok")
    /\ UNCHANGED <<now, storeVars, saveVars, callFrame>>

\* A call that does not touch the store returns.
StoreFreeCall(op, id, effect) ==
    /\ returned.n < MaxCalls
    /\ effect
    /\ returned' = Call(op, id, "ok")
    /\ UNCHANGED <<saveVars, callFrame>>

\* save_state() from connect to close, on a store in condition db: no except
\* clause, the finally clause closes the connection.
SaveState(db) ==
    /\ learning_state' = IF StoreError(db) = "" THEN SnapshotOf(active_tasks)
                         ELSE learning_state
    /\ UNCHANGED saver

\* A direct save_state() call.
save_state_call(db) ==
    /\ returned.n < MaxCalls
    /\ SaveState(db)
    /\ returned' = Call("save_state", db, StoreError(db))
    /\ UNCHANGED <<schedVars, storeVars, skillVars, cons, sessions, conn, callers,
                   consolidation_log, outputs, lifeVars>>

\* Brain.close(): save_state(), then stop(), then db.close(); an exception of
\* save_state leaves before stop().
close(db) ==
    /\ returned.n < MaxCalls
    /\ SaveState(db)
    /\ running' = IF StoreError(db) = "" THEN FALSE ELSE running
    /\ returned' = Call("close", db, StoreError(db))
    /\ UNCHANGED <<active_tasks, task_queue, threads, stats, now, storeVars,
                   callFrame>>

NextFail ==
    \/ \E db \in StoreStates : construct(db)
    \/ \E t \in Topics, p \in AddPrioInputs : StoreFreeCall("add_topic", t, add_topic(t, p))
    \/ \E t \in Topics, p \in PrioInputs :
          StoreFreeCall("update_priority", t, update_priority(t, p))
    \/ StoreFreeCall("start", "", start)
    \/ StoreFreeCall("stop", "", stop)
    \/ \E db \in StoreStates : save_state_call(db)
    \/ \E db \in StoreStates : close(db)
    \/ \E i \in 1..MaxThreads : LoopStep(i)

SpecFail == Init /\ [][NextFail]_vars

\* C22: every foreground call on the scheduler returns normally, whatever the
\* condition of the store: the constructor, add_topic, update_priority,
\* start, stop, save_state and Brain.close.
C22_NoErrorToCaller == returned.result \in {"none", "ok"}

\* What does hold: the constructor and the calls that do not touch the store
\* return normally; a loop thread ends only at `while self.running`.
C22_StoreFreeCallsReturn ==
    /\ returned.op \notin {"save_state", "close"} => returned.result \in {"none", "ok"}
    /\ returned.result = "OperationalError" => returned.id # "ok"

----------------------------------------------------------------------------
(* The life of sessions and episodic rows: a store with sessions and events *)
(* of several ages, foreground writes, and consolidation runs, at the hour  *)
(* Today.                                                                   *)

MaxEpisodic == 2     \* episodic rows of a store the run starts on

\* INSERT INTO episodic_memory (event_type, ..., session_id): timestamp is
\* CURRENT_TIMESTAMP, tier 'WARM'.
EpisodicRow(event_type, session_id) ==
    [timestamp |-> now, event_type |-> event_type, session_id |-> session_id,
     tier |-> "WARM"]

\* add_episodic_memory: one INSERT in a unit of work; no foreign key is
\* enforced on session_id.
add_episodic_memory(event_type, session_id) ==
    /\ returned.n < MaxCalls
    /\ Len(episodic_memory) <= MaxEpisodic
    /\ IF Locked # ""
       THEN /\ returned' = Call("add_episodic_memory", session_id, Locked)
            /\ UNCHANGED <<episodic_memory, added>>
       ELSE /\ returned' = Call("add_episodic_memory", session_id, "ok")
            /\ episodic_memory' = Append(episodic_memory,
                                         EpisodicRow(event_type, session_id))
            /\ added' = [added EXCEPT !.episodic = @ + 1]
    /\ UNCHANGED <<schedVars, storeVars, skillVars, cons, sessions, conn, callers,
                   consolidation_log, saveVars, outputs, status_call, archive_file>>

\* get_memory_stats: COUNT(*) of episodic_memory and of sessions, on the
\* foreground connection.
MemoryStats ==
    [episodic_count |-> Len(episodic_memory),
     session_count |-> Cardinality(DOMAIN sessions)]

\* Hours of the rows written before: 190, 160 and 150 hours ago; the cutoff
\* of a run at Today is 168 hours ago, on the calendar day of the second.
LifeStamps == {Today - 190, Today - 160, Today - 150}

InputSession(start_time, ended, summary) ==
    [context |-> "c1", ended |-> ended, start_time |-> start_time, summary |-> summary]

\* Session "s1": none, closed at one of the ages, open, or closed with a
\* summary given to end_session; session "s2": none, or old and closed.
SessionTables ==
    LET s1 == {InputSession(t, TRUE, NoValue) : t \in LifeStamps}
                 \cup {InputSession(Today - 190, FALSE, NoValue),
                       InputSession(Today - 190, TRUE, <<"given">>)}
        s2 == InputSession(Today - 190, TRUE, NoValue)
    IN {table \in UNION {[ids -> s1] : ids \in SUBSET SessionIds} :
           "s2" \in DOMAIN table => table["s2"] = s2}

EpisodicInputs ==
    {[timestamp |-> t, event_type |-> "command", session_id |-> "s1", tier |-> "WARM"] :
        t \in LifeStamps}
    \cup {[timestamp |-> Today - 190, event_type |-> "error", session_id |-> "s1",
           tier |-> "WARM"]}

\* Rows are inserted in the order of their ids: timestamps do not decrease.
EpisodicTables ==
    {table \in Tables(EpisodicInputs, MaxEpisodic) :
        \A k \in DOMAIN table : \A l \in DOMAIN table :
            k < l => table[k].timestamp <= table[l].timestamp}

\* Facts and skills: none; a fact to promote and a skill used an hour ago; a
\* fact to demote; two duplicate facts.
LifeStores ==
    {[sem |-> <<>>, skills |-> <<>>],
     [sem |-> <<InputRow("a", [head |-> "p", tail |-> ""], 50, HotAccess + 1, "WARM")>>,
      skills |-> [n \in {"s"} |-> InputSkill(1, <<Today - 1>>, "WARM")]],
     [sem |-> <<InputRow("a", [head |-> "p", tail |-> ""], 50, 5, "HOT")>>,
      skills |-> <<>>],
     [sem |-> <<InputRow("a", [head |-> "p", tail |-> ""], 50, 0, "WARM"),
                InputRow("a", [head |-> "p", tail |-> "x"], 60, 0, "WARM")>>,
      skills |-> <<>>]}

InitLife ==
    /\ now = Today
    /\ \E store \in LifeStores : /\ semantic_memory = store.sem
                                 /\ skill_memory = store.skills
    /\ sem_seq = Len(semantic_memory)
    /\ stored_confidence = [id \in DOMAIN semantic_memory |->
                               semantic_memory[id].confidence]
    /\ skill_seq = Cardinality(DOMAIN skill_memory)
    /\ skill_history = [n \in DOMAIN skill_memory |->
                           [successes |-> skill_memory[n].success_count,
                            failures |-> skill_memory[n].failure_count]]
    /\ cons = IdleRun
    /\ sessions \in SessionTables
    /\ conn = ClosedConn
    /\ returned = NoCall
    /\ callers = [c \in Callers |-> IdleCaller]
    /\ consolidation_log = <<>>
    /\ learning_state = <<>>
    /\ saver = IdleSaver
    /\ outputs = NoOutputs
    /\ status_call = IdleStatus
    /\ episodic_memory \in EpisodicTables
    /\ added = [episodic |-> Len(episodic_memory),
                sessions |-> Cardinality(DOMAIN sessions)]
    /\ archive_file = <<>>
    /\ NoLearner

NextLife ==
    \/ \E id \in SessionIds : create_session(id, "c1", FALSE)
    \/ \E id \in SessionIds : end_session(id, FALSE)
    \/ \E id \in SessionIds : add_episodic_memory("command", id)
    \/ Consolidate

SpecLife == InitLife /\ [][NextLife]_vars

\* The tier values of the schema.
C23_Tiers == {"HOT", "WARM", "COLD"}

C23_TiersOf(table) == {table[k].tier : k \in DOMAIN table}

\* Every row a reader can see, in the file or inside a run, has a tier of
\* the three.
C23_TierIsEnumerated ==
    /\ C23_TiersOf(episodic_memory) \cup C23_TiersOf(ConsEpisodic) \subseteq C23_Tiers
    /\ C23_TiersOf(semantic_memory) \cup C23_TiersOf(ViewSem) \subseteq C23_Tiers
    /\ C23_TiersOf(skill_memory) \cup C23_TiersOf(ViewSkills) \subseteq C23_Tiers

\* The rebalance step of a run.
C23_Rebalance == cons.pc = "update_tiers" /\ cons'.pc = "vacuum"

C23_SameButTier(before, after) ==
    /\ DOMAIN after = DOMAIN before
    /\ \A k \in DOMAIN before : after[k] = [before[k] EXCEPT !.tier = after[k].tier]

\* The rebalance step deletes and inserts no row and changes no column but
\* tier, in a fact or a skill; it leaves episodic rows and sessions alone.
C23_RebalanceReclassifies ==
    C23_Rebalance =>
        /\ C23_SameButTier(ViewSem, cons'.sem)
        /\ C23_SameButTier(ViewSkills, cons'.skills)
        /\ cons'.episodic = ConsEpisodic
        /\ cons'.sessions = ConsSessions
        /\ <<semantic_memory, skill_memory, episodic_memory, sessions>>'
              = <<semantic_memory, skill_memory, episodic_memory, sessions>>

\* C23: the tier of every episodic, semantic and skill row is HOT, WARM or
\* COLD in every reachable state of the store, and the rebalance step only
\* reclassifies: it deletes no row, inserts none, and changes no column
\* other than tier.
C23_TierOnlyReclassified == []C23_TierIsEnumerated /\ [][C23_RebalanceReclassifies]_vars

\* After the rebalance step of a run: a fact promoted or demoted, a skill
\* promoted, with an episodic row archived earlier in the run.
C23_Witness ==
    /\ cons.pc = "vacuum"
    /\ \E id \in DOMAIN semantic_memory : cons.sem[id].tier # semantic_memory[id].tier
    /\ "s" \in DOMAIN skill_memory /\ cons.skills["s"].tier = "HOT"
    /\ \E k \in DOMAIN episodic_memory : cons.episodic[k].tier = "COLD"

\* The archive step of a run.
C24_ArchiveStep == cons.pc = "idle" /\ cons'.pc = "consolidate_semantic"

\* Older than the threshold of days_threshold = 7 days.
C24_OlderThanThreshold(row) == now - row.timestamp > 7 * 24

\* No row deleted, no column but tier changed, and a tier changed only from
\* WARM to COLD by the archive step (on a row of the given age, if asked).
C24_Frame(before, after, aged) ==
    /\ DOMAIN before \subseteq DOMAIN after
    /\ \A k \in DOMAIN before :
          /\ after[k] = [before[k] EXCEPT !.tier = after[k].tier]
          /\ after[k].tier # before[k].tier =>
                /\ before[k].tier = "WARM"
                /\ after[k].tier = "COLD"
                /\ C24_ArchiveStep
                /\ aged => C24_OlderThanThreshold(before[k])

C24_Steps(aged) ==
    /\ C24_Frame(episodic_memory, episodic_memory', aged)
    /\ cons'.txn => C24_Frame(ConsEpisodic, cons'.episodic, aged)

\* The counts of get_memory_stats are the numbers of calls that returned.
C24_Counts ==
    /\ MemoryStats.episodic_count = added.episodic
    /\ MemoryStats.session_count = added.sessions

\* C24: no operation deletes an episodic row or changes a column of it other
\* than tier; a tier changes only from WARM to COLD, in the archive step, on
\* a row older than the threshold; so the episodic count of get_memory_stats
\* is the number of add_episodic_memory calls that returned, and the session
\* count the number of create_session calls that returned.
C24_EpisodicOnlyArchived == [][C24_Steps(TRUE)]_vars /\ []C24_Counts

\* What does hold: the same without the age of the rows the archive step
\* relabels.
C24_EpisodicOnlyRelabelled == [][C24_Steps(FALSE)]_vars /\ []C24_Counts

----------------------------------------------------------------------------
(* consolidate() run twice.                                                *)

\* The four tables of the file, as a new connection reads them.
Store == [sessions |-> sessions, episodic |-> episodic_memory,
          sem |-> semantic_memory, skills |-> skill_memory]

\* One whole consolidate() call on the tables `store` at hour t, no other
\* connection writing meanwhile: the four steps in order on one connection,
\* then VACUUM.  _update_tiers always executes its UPDATEs, so a transaction
\* is open at VACUUM, which raises; close() rolls back and the file keeps
\* the tables the run started from.
ConsolidateRun(store, t) ==
    LET s == SummarizeSessions(store.sessions, store.episodic, CutoffDate(t))
        a == ArchiveEpisodic(store.episodic, CutoffDate(t))
        c == ConsolidateSemantic(store.sem)
        u == UpdateTiers(c.table, store.skills, t)
    IN [operations |-> <<Reported("summarize_sessions", s.count),
                         Reported("archive_episodic", a.count),
                         Reported("consolidate_semantic", c.count),
                         Reported("update_tiers", u.count)>>,
        written |-> [sessions |-> s.table, episodic |-> a.table,
                     sem |-> u.sem, skills |-> u.skills],
        status |-> "error",
        store |-> store]

\* Every operation of a report has count 0.
NothingReported(operations) ==
    \A k \in DOMAIN operations : operations[k].count = 0

\* C25: each consolidation step is idempotent: when consolidate is run twice
\* in succession with no other write in between, each of the four steps of
\* the second run reports count 0 and the second run leaves every row of
\* the store unchanged.
C25_SecondRunReportsNothing ==
    [][cons.pc = "vacuum" /\ cons'.pc = "idle" =>
          LET second == ConsolidateRun(Store', now')
          IN /\ NothingReported(second.operations)
             /\ second.store = Store']_vars

\* What does hold: each step, applied to the tables the steps of a run have
\* written, finds nothing to do; and a second run leaves the file unchanged.
C25_StepsIdempotentOnWritten ==
    cons.pc = "idle" =>
        LET first == ConsolidateRun(Store, now)
            again == ConsolidateRun(first.written, now)
            second == ConsolidateRun(first.store, now)
        IN /\ NothingReported(again.operations)
           /\ again.written = first.written
           /\ second.store = first.store

\* The report of a run that no write interleaves with is that of
\* ConsolidateRun on the tables of the file.
C25_RunIsItsSteps ==
    [][cons.pc = "vacuum" /\ cons'.pc = "idle" =>
          /\ cons'.operations = ConsolidateRun(Store, now).operations
          /\ cons'.status = ConsolidateRun(Store, now).status
          /\ Store' = ConsolidateRun(Store, now).store]_vars

----------------------------------------------------------------------------
(* The summarize step.                                                     *)

\* The sessions whose row the summarize step of this run has changed.
C26_Summarized(before, after) ==
    {id \in DOMAIN before : after[id] # before[id]}

\* The summarize step of a run that wrote.
C26_SummarizeStep == C24_ArchiveStep /\ cons'.txn

\* The step assigns a summary, and nothing else, to closed sessions without
\* one (and, if asked, only to those started more than the threshold ago),
\* and creates or deletes no session.
C26_OnlyStale(aged) ==
    C26_SummarizeStep =>
        /\ DOMAIN cons'.sessions = DOMAIN sessions
        /\ \A id \in C26_Summarized(sessions, cons'.sessions) :
              /\ sessions[id].ended
              /\ sessions[id].summary = NoValue
              /\ cons'.sessions[id].summary # NoValue
              /\ cons'.sessions[id] =
                    [sessions[id] EXCEPT !.summary = cons'.sessions[id].summary]
              /\ aged => now - sessions[id].start_time > 7 * 24

\* When a run returns, no session it summarized is one a run that follows
\* summarizes.
C26_NotAgain ==
    cons.pc = "vacuum" /\ cons'.pc = "idle" =>
        C26_Summarized(sessions, ConsSessions)
            \cap Summarizable(sessions', CutoffDate(now')) = {}

\* C26: the summarize step assigns a summary only to sessions that are
\* closed, have no summary and started longer ago than the threshold; it
\* changes no summary that is set and no open session; and a session that
\* one run summarized is not summarized again by a later run, with or
\* without episodic events.
C26_SummarizedOnce == [][C26_OnlyStale(TRUE)]_vars /\ [][C26_NotAgain]_vars

\* What does hold: only closed sessions without a summary are given one, no
\* other column changes, and the summary written is never null, so that on
\* the tables the run wrote no session is found again.
C26_OnlyClosedUnsummarized ==
    [][/\ C26_OnlyStale(FALSE)
       /\ C26_SummarizeStep =>
             Summarizable(cons'.sessions, CutoffDate(now)) = {}]_vars

\* Each half of C26 on its own.
C26_StaleOnly == [][C26_OnlyStale(TRUE)]_vars
C26_NeverAgain == [][C26_NotAgain]_vars

----------------------------------------------------------------------------
(* Priorities: add_topic and update_priority with any integer argument.    *)

\* Arguments within and outside 1..10.
AnyAddPriority == {NoPriority, <<0>>, <<1>>, <<11>>, <<-1>>}
AnyPriority == {0, 10, 11}

NextPrio ==
    /\ \/ \E t \in Topics, p \in AnyAddPriority : add_topic(t, p)
       \/ \E t \in Topics, p \in AnyPriority : update_priority(t, p)
       \/ start
       \/ stop
       \/ \E i \in 1..MaxThreads : Loop(i)
       \/ Tick
    /\ UNCHANGED <<urgent, skillVars, cons, sideVars>>

SpecPrio == Init /\ [][NextPrio]_vars

\* C27: in every reachable state the priority of every LearningTask is an
\* integer from 1 to 10, whatever priority argument add_topic and
\* update_priority were given, and after every load and every requeue.
C27_PriorityInRange ==
    \A topic \in Tracked : active_tasks[topic].priority \in 1..10

\* What does hold: a step of the loop thread, which includes the requeue,
\* leaves every task with a priority from 1 to 10 that it did not find
\* outside; so does every state after construction (the load).
C27_LoopKeepsRange ==
    [][(\E i \in 1..MaxThreads : Loop(i)) =>
          \A topic \in DOMAIN active_tasks' :
              \/ active_tasks'[topic].priority \in 1..10
              \/ /\ topic \in Tracked
                 /\ active_tasks'[topic].priority = active_tasks[topic].priority]_vars

----------------------------------------------------------------------------
(* One improvement step.                                                   *)

\* The rows a step changes.
C28_Changed == {id \in DOMAIN semantic_memory : semantic_memory'[id] # semantic_memory[id]}

\* The UPDATE of an improvement step by thread i.
C28_WriteStep(i) == threads[i].pc = "write" /\ threads'[i].pc = "requeue"

\* An improvement step that found no fact to raise, by thread i.
C28_NoFactStep(i) == threads[i].pc = "improve" /\ threads'[i].pc = "requeue"

\* The requeue after a step that raised nothing.
C28_RequeueUnimproved(i) ==
    threads[i].pc = "requeue" /\ ~threads[i].improved /\ threads'[i].pc # "requeue"

\* No row is inserted or deleted, and no confidence is lowered.
C28_NoneLowered ==
    /\ DOMAIN semantic_memory' = DOMAIN semantic_memory
    /\ \A id \in DOMAIN semantic_memory :
          semantic_memory'[id].confidence >= semantic_memory[id].confidence

\* The UPDATE changes at most one row: its confidence was below 0.7 and is
\* raised by 0.05, capped at 0.9; no confidence is lowered.
C28_OneRowRaised(i) ==
    C28_WriteStep(i) =>
        /\ Cardinality(C28_Changed) <= 1
        /\ \A id \in C28_Changed :
              /\ semantic_memory[id].confidence < 70
              /\ semantic_memory'[id] =
                    [semantic_memory[id] EXCEPT
                        !.confidence = NewConfidence(semantic_memory[id].confidence)]
        /\ C28_NoneLowered

\* Without a qualifying fact no row changes, improvement_rounds is not
\* incremented and the task is requeued.
C28_NothingToRaise(i) ==
    /\ C28_NoFactStep(i) => semantic_memory' = semantic_memory /\ ~threads'[i].improved
    /\ C28_RequeueUnimproved(i) =>
          LET topic == Head(threads[i].batch)
          IN /\ semantic_memory' = semantic_memory
             /\ stats'.improvement_rounds = stats.improvement_rounds
             /\ active_tasks'[topic].improvement_rounds
                   = active_tasks[topic].improvement_rounds
             /\ topic \in Range(task_queue')

\* C28: one improvement step for a topic changes the confidence of at most
\* one fact row: the first of the topic's lowest-confidence facts below 0.7
\* is raised by exactly 0.05, capped at 0.9, and every other row stays as it
\* is, so no confidence is ever lowered; when no fact qualifies or the topic
\* has none, no row changes, improvement_rounds is not incremented and the
\* task is still requeued.
C28_AtMostOneRowRaised ==
    [][\A i \in 1..MaxThreads : C28_OneRowRaised(i) /\ C28_NothingToRaise(i)]_vars

\* What does hold: the step without a qualifying fact; and the UPDATE
\* touches only rows of the topic (whatever the case of its letters) that
\* carry the text of the selected fact, and sets them all to one value.
C28_WritesRowsOfOneText ==
    [][\A i \in 1..MaxThreads :
          /\ C28_NothingToRaise(i)
          /\ C28_WriteStep(i) =>
                LET topic == Head(threads[i].batch)
                    p == threads[i].pending[1]
                IN /\ DOMAIN semantic_memory' = DOMAIN semantic_memory
                   /\ \A id \in C28_Changed :
                         /\ Lower(semantic_memory[id].topic) = Lower(topic)
                         /\ semantic_memory[id].fact = p.fact
                         /\ semantic_memory'[id] =
                               [semantic_memory[id] EXCEPT !.confidence = p.confidence]]_vars

----------------------------------------------------------------------------
(* One cycle of the loop.                                                  *)

\* The selection removes the first min(batch_size, len) topics of the queue
\* and the batch holds exactly these.
C29_TakesFront(i) ==
    Selected(i) =>
        LET n == Min2(batch_size, Len(task_queue))
        IN /\ task_queue' = SubSeq(task_queue, n + 1, Len(task_queue))
           /\ Len(threads'[i].batch) = n
           /\ Range(threads'[i].batch) = Range(SubSeq(task_queue, 1, n))

\* Thread i is done with the first task of its batch.
C29_TaskDone(i) ==
    /\ threads[i].pc \in C13_BatchStates
    /\ threads[i].batch # <<>>
    /\ threads'[i].batch = Tail(threads[i].batch)

\* The task is reinserted by its recomputed priority, which its priority
\* field holds.
C29_Reinserted(i) ==
    LET topic == Head(threads[i].batch)
        new_priority == CalculatePriority(active_tasks[topic].facts_count, 70)
    IN /\ active_tasks'[topic].priority = new_priority
       /\ task_queue' = IF new_priority >= 7 THEN <<topic>> \o task_queue
                        ELSE Append(task_queue, topic)

\* C29: each cycle removes exactly min(batch_size, queue length) topics from
\* the front of the queue, in FIFO order, and processes each of them once;
\* after processing, each topic is reinserted, at the front of the queue if
\* its recomputed priority is >= 7 and at the back otherwise, and the
\* priority field of the task holds the recomputed value.
C29_CycleTakesAndReinserts ==
    [][\A i \in 1..MaxThreads :
          /\ C29_TakesFront(i)
          /\ C29_TaskDone(i) => C29_Reinserted(i)]_vars

\* What does hold: the same, but for a task whose improvement raised, which
\* leaves the batch with its priority and the queue as they were.
C29_ReinsertsUnlessRaised ==
    [][\A i \in 1..MaxThreads :
          /\ C29_TakesFront(i)
          /\ C29_TaskDone(i) =>
                IF Head(threads[i].batch) \in threads'[i].failed \ threads[i].failed
                THEN UNCHANGED <<task_queue, active_tasks>>
                ELSE C29_Reinserted(i)]_vars

----------------------------------------------------------------------------
(* The requeue of tasks with few and with many facts.                      *)

\* Topic "a" in the store: no fact, one fact, or five facts of low or of
\* middling confidence.
RequeueStores == {GroupRows("a", confs, <<1, 1>>) : confs \in {<<>>, <<65>>, Five(45), Five(65)}}

InitRequeue ==
    /\ NoSkillsNoRun
    /\ now = 1
    /\ semantic_memory \in RequeueStores
    /\ sem_seq = Len(semantic_memory)
    /\ stored_confidence = [id \in DOMAIN semantic_memory |->
                               semantic_memory[id].confidence]
    /\ Connected
    /\ Constructed(semantic_memory)

NextRequeue ==
    /\ \/ \E t \in Topics, p \in {NoPriority, <<9>>} : add_topic(t, p)
       \/ \E t \in Topics : update_priority(t, 9)
       \/ start
       \/ stop
       \/ \E i \in 1..MaxThreads : Loop(i)
    /\ UNCHANGED <<urgent, skillVars, cons, sideVars>>

SpecRequeue == InitRequeue /\ [][NextRequeue]_vars

\* The requeue of the first task of the batch of thread i.
C30_RequeueStep(i) == threads[i].pc = "requeue" /\ threads'[i] # threads[i]

\* The requeue stores 6 for a task of fewer than 5 facts and 3 otherwise,
\* and appends the topic to the queue.
C30_Requeued(i) ==
    C30_RequeueStep(i) =>
        LET topic == Head(threads[i].batch)
        IN /\ active_tasks'[topic].priority
                 = IF active_tasks[topic].facts_count < 5 THEN 6 ELSE 3
           /\ task_queue' = Append(task_queue, topic)

\* C30: the priority recomputed at the requeue inside the loop is always 3
\* or 6 (6 when the task's facts_count is below 5, otherwise 3), whatever
\* the confidences of the topic's facts and whatever priority was set
\* before; so every such requeue goes to the back of the queue and a
\* priority given through add_topic or update_priority does not outlive the
\* first processing of the topic.
C30_RequeueIs3Or6 == [][\A i \in 1..MaxThreads : C30_Requeued(i)]_vars

\* Topic "a", five facts averaging below 0.7, was requeued with 3, and topic
\* "A", added with 9 or raised to 9, was requeued with 6; both at the back.
C30_Witness ==
    /\ Topics \subseteq Tracked
    /\ active_tasks["a"].facts_count = 5
    /\ AvgConfidence(semantic_memory, WarmRows(semantic_memory, "a")) < 70
    /\ active_tasks["a"].priority = 3
    /\ active_tasks["A"].priority = 6
    /\ task_queue \in {<<"a", "A">>, <<"A", "a">>}

----------------------------------------------------------------------------
(* Starvation: the loop running, no improvement raising, no                *)
(* update_priority; the history counts, for every tracked topic, the        *)
(* selections that have passed it over.                                    *)

\* ceil(n / batch_size)
CyclesFor(n) == (n + batch_size - 1) \div batch_size

\* The history after a selection: 0 for the topics of the batch, one more
\* for every other tracked topic.
PassedOver(f, batch) ==
    [t \in Tracked |->
        IF t \in Range(batch) THEN 0
        ELSE (IF t \in DOMAIN f THEN f[t] ELSE 0) + 1]

StarveAdd(topic, priority) ==
    /\ add_topic(topic, priority)
    /\ urgent' = IF topic \in Tracked THEN urgent ELSE Noted(urgent, topic)

StarveLoop(i) ==
    /\ \/ LoopCheck(i)
       \/ ImproveRead(i)
       \/ ImproveWrite(i)
       \/ Requeue(i)
    /\ urgent' = IF Selected(i) THEN PassedOver(urgent, threads'[i].batch) ELSE urgent

NextStarve ==
    /\ \/ \E t \in QueueTopics, p \in QueuePrioInputs : StarveAdd(t, p)
       \/ start /\ UNCHANGED urgent
       \/ \E i \in 1..MaxThreads : StarveLoop(i)
    /\ UNCHANGED <<skillVars, cons, sideVars>>

SpecStarve == Init /\ [][NextStarve]_vars

\* C31: no starvation: while the loop stays running, no improvement step
\* raises and update_priority is not called, with N tracked topics every
\* topic is selected at least once in any ceil(N / batch_size) consecutive
\* cycles, also while add_topic keeps adding topics: no topic is ever
\* passed over by ceil(N / batch_size) selections in a row.
C31_NoStarvation ==
    \A t \in DOMAIN urgent : urgent[t] < CyclesFor(Cardinality(Tracked))

\* Three topics and batch_size 2: a topic was passed over by one selection
\* and is in the batch of the next.
C31_Witness ==
    /\ Cardinality(Tracked) > batch_size
    /\ stats.cycles_run >= 1
    /\ \E i \in 1..MaxThreads :
          /\ threads[i].pc \in C13_BatchStates
          /\ \E t \in Range(threads[i].batch) :
                /\ active_tasks[t].priority \in {3, 6}
                /\ \E o \in Tracked \ Range(threads[i].batch) : urgent[o] = 1

----------------------------------------------------------------------------
(* The whole run: order, compaction, log record, report.                   *)

\* The return of a run: VACUUM and what follows it.
C32_VacuumStep == cons.pc = "vacuum" /\ cons'.pc = "idle"

\* The names of the operations of a report, in order.
C32_Names(operations) == [k \in DOMAIN operations |-> operations[k].operation]

C32_FourSteps ==
    <<"summarize_sessions", "archive_episodic", "consolidate_semantic", "update_tiers">>

\* The tables as the connection of the run reads them.
C32_Written == [sessions |-> ConsSessions, episodic |-> ConsEpisodic,
                sem |-> ViewSem, skills |-> ViewSkills]

\* C32: a run whose four steps raise no error runs them in the order
\* summarize, archive, deduplicate, rebalance, then compacts the store,
\* then writes the log record, and returns status success with four
\* operations and the changes of the steps committed; the compaction is
\* issued only when no transaction is open on the connection of the run.
C32_RunSucceeds ==
    [][C32_VacuumStep =>
          /\ ~cons.txn
          /\ C32_Names(cons'.operations) = C32_FourSteps
          /\ cons'.status = "success"
          /\ consolidation_log' =
                Append(consolidation_log,
                       LogRecord(RecordsProcessed(cons.operations), "success"))
          /\ Store' = C32_Written]_vars

\* What does hold: the four steps run in that order before the compaction,
\* and the report lists the four of them.
C32_StepsInOrder ==
    /\ cons.pc = "consolidate_semantic" =>
          C32_Names(cons.operations) = SubSeq(C32_FourSteps, 1, 2)
    /\ cons.pc = "update_tiers" =>
          C32_Names(cons.operations) = SubSeq(C32_FourSteps, 1, 3)
    /\ cons.pc = "vacuum" => C32_Names(cons.operations) = C32_FourSteps
    /\ cons.pc = "idle" /\ cons.status # "none" =>
          C32_Names(cons.operations) = C32_FourSteps

----------------------------------------------------------------------------
(* The loop thread and a consolidation run on one file.                    *)

\* One fact of topic "a" below 0.7, alone or with a duplicate of higher
\* confidence (same first 50 characters, another tail).
RaceStores ==
    {<<SemanticRow("a", [head |-> "p", tail |-> ""], 65, 1)>>,
     <<SemanticRow("a", [head |-> "p", tail |-> ""], 65, 1),
       SemanticRow("a", [head |-> "p", tail |-> "x"], 95, 1)>>}

InitRace ==
    /\ NoSkillsNoRun
    /\ now = 1
    /\ semantic_memory \in RaceStores
    /\ sem_seq = Len(semantic_memory)
    /\ stored_confidence = [id \in DOMAIN semantic_memory |->
                               semantic_memory[id].confidence]
    /\ Connected
    /\ Constructed(semantic_memory)

\* The loop thread beside a run: its UPDATE cannot take the write lock while
\* the run has a transaction open (it waits, and raises at the timeout).
RaceLoop(i) ==
    /\ \/ LoopCheck(i)
       \/ ImproveRead(i)
       \/ ~cons.txn /\ ImproveWrite(i)
       \/ ImproveRaise(i)
       \/ Requeue(i)
    /\ UNCHANGED <<urgent, skillVars, cons, sideVars>>

NextRace ==
    \/ add_topic("a", NoPriority) /\ UNCHANGED <<urgent, skillVars, cons, sideVars>>
    \/ start /\ UNCHANGED <<urgent, skillVars, cons, sideVars>>
    \/ \E i \in 1..MaxThreads : RaceLoop(i)
    \/ Consolidate

SpecRace == InitRace /\ [][NextRace]_vars

\* The rows the pending UPDATE of thread i will write.
C33_Pending(i) == ImprovedRows(Head(threads[i].batch), threads[i].pending[1].fact)

\* Between the read and the write of thread i no connection changes the
\* confidence of a row it is about to write.
C33_NotSeparated(i) ==
    threads[i].pc = "write" /\ threads'[i].pc = "write" =>
        \A id \in C33_Pending(i) :
            /\ id \in DOMAIN ViewSem'
            /\ ViewSem'[id].confidence = ViewSem[id].confidence
            /\ semantic_memory'[id].confidence = semantic_memory[id].confidence

\* The deduplication of a run has assigned its values.
C33_Deduplicated == cons.txn /\ cons.pc \in {"update_tiers", "vacuum"}

\* The pending write of a thread does not put a fact below the value the
\* deduplication assigned to it.
C33_NotBelowAssigned ==
    \A i \in 1..MaxThreads :
        threads[i].pc = "write" /\ C33_Deduplicated =>
            \A id \in C33_Pending(i) \cap DOMAIN cons.sem :
                threads[i].pending[1].confidence >= cons.sem[id].confidence

\* C33: no lost update between the scheduler and other writers: the read of
\* a fact's confidence by an improvement step and its later write of that
\* confidence + 0.05 are not separated by another writer's change to the
\* row, so a fact never ends below the value a concurrent deduplication
\* assigned to it.
C33_ReadAndWriteNotSeparated ==
    [][\A i \in 1..MaxThreads : C33_NotSeparated(i)]_vars /\ []C33_NotBelowAssigned

\* What does hold here: the value the UPDATE replaces in the file is the
\* one the step read (every run rolls its deduplication back).
C33_FileValueIsTheOneRead ==
    [][\A i \in 1..MaxThreads :
          threads[i].pc = "write" /\ threads'[i].pc = "requeue" =>
              \A id \in C33_Pending(i) :
                  semantic_memory'[id].confidence
                     = NewConfidence(semantic_memory[id].confidence)]_vars

\* Each half of C33 on its own.
C33_Separation == [][\A i \in 1..MaxThreads : C33_NotSeparated(i)]_vars

----------------------------------------------------------------------------
(* start() and stop(): the loop threads.                                   *)

\* Thread i is selecting or processing batches: it is inside a batch, or at
\* `while self.running` with the flag set.
C34_Looping(i) ==
    \/ threads[i].pc \in C13_BatchStates
    \/ threads[i].pc = "check" /\ running

\* C34: after any interleaving of start() and stop() calls, also a stop()
\* that returns on its join timeout while a batch is in flight followed by
\* a start(), at most one loop thread is selecting and processing batches
\* at any time.
C34_AtMostOneLoop ==
    Cardinality({i \in 1..MaxThreads : C34_Looping(i)}) <= 1

\* What does hold: a thread is created only while the flag is clear, so
\* start() on a running scheduler creates no second loop; and a thread ends
\* only at `while self.running` with the flag clear.
C34_StartOnlyWhenStopped ==
    [][\A i \in 1..MaxThreads :
          /\ threads[i].pc = "none" /\ threads'[i].pc # "none" =>
                ~running /\ running' /\ threads'[i].pc = "check"
          /\ threads[i].pc # "none" /\ threads'[i].pc = "none" =>
                ~running /\ threads[i].pc = "check"]_vars

----------------------------------------------------------------------------
(* The archive file and the COLD rows.                                     *)

\* The episodic rows of the file of the store with tier COLD.
C35_Cold == {k \in DOMAIN episodic_memory : episodic_memory[k].tier = "COLD"}

\* The rows contained in the export file of the archive directory.
C35_Exported == Range(archive_file)

\* C35: after any sequence of consolidation runs, also runs of one calendar
\* day that each find eligible rows and runs that fail after the archive
\* step, every episodic row of tier COLD is contained in an export file of
\* the archive directory, and every row contained in an export file has
\* tier COLD in the store.
C35_ColdIffExported ==
    cons.pc = "idle" => C35_Cold = C35_Exported

\* What does hold: every COLD row of the store is in the file; and the file
\* an archive step writes holds exactly the rows the step relabels on the
\* connection of the run.
C35_FileIsWhatTheStepRelabels ==
    /\ [](C35_Cold \subseteq C35_Exported)
    /\ [][C24_ArchiveStep /\ cons'.txn =>
             \/ /\ archive_file' = archive_file
                /\ cons'.episodic = episodic_memory
             \/ Range(archive_file') =
                   {k \in DOMAIN episodic_memory :
                       /\ episodic_memory[k].tier = "WARM"
                       /\ cons'.episodic[k].tier = "COLD"}]_vars

----------------------------------------------------------------------------
(* Access counts and the HOT tier of semantic facts                        *)

MaxAccess == 12      \* accesses counted on one row

\* update_semantic_access: access_count = access_count + 1 on the row of
\* the id, committed at once.  While the transaction of a consolidation
\* run holds the write lock the UPDATE does not get through.
update_semantic_access(memory_id) ==
    /\ ~cons.txn
    /\ memory_id \in DOMAIN semantic_memory
    /\ semantic_memory[memory_id].access_count < MaxAccess
    /\ semantic_memory' =
          [semantic_memory EXCEPT ![memory_id].access_count = @ + 1]
    /\ UNCHANGED <<sem_seq, stored_confidence, schedVars, skillVars, cons, sideVars>>

\* Facts learned in the foreground, accessed, and consolidation runs.
NextTier ==
    \/ /\ \E f \in FactInputs : learn_fact("a", f, 95)
       /\ UNCHANGED <<urgent, skillVars, cons, sideVars>>
    \/ \E id \in 1..MaxFacts : update_semantic_access(id)
    \/ Consolidate

SpecTier == InitFacts /\ [][NextTier]_vars

\* The rows of both tables keep or raise their access_count.
C36_NotLowered(before, after) ==
    \A id \in DOMAIN before \cap DOMAIN after :
        after[id].access_count >= before[id].access_count

C36_Hot(table) == {id \in DOMAIN table : table[id].tier = "HOT"}

\* C36: a semantic fact promoted to HOT stays HOT under every operation and
\* consolidation pass that follows (access_count never decreases and every
\* HOT fact has access_count above 10, so the demotion changes no row).
C36_HotStaysHot ==
    [][C36_Hot(ViewSem) \subseteq C36_Hot(ViewSem')]_vars

\* What does hold: no operation lowers the access_count of a row of the
\* file, no step of a run lowers one on the connection of the run, every
\* HOT fact has access_count above 10, and the demotion changes no row.
C36_AccessKeptAndHotAboveTen ==
    /\ [](\A id \in C36_Hot(ViewSem) : ViewSem[id].access_count > HotAccess)
    /\ [][C36_NotLowered(semantic_memory, semantic_memory')]_vars
    /\ [][cons'.txn => C36_NotLowered(ViewSem, ViewSem')]_vars
    /\ [][UpdateTiersStep => Demoted(ViewSem) = {}]_vars

\* A promotion happens: the tier step turns a fact HOT on its connection.
C36_Promotion ==
    cons.pc = "vacuum" /\ C36_Hot(cons.sem) # {}

----------------------------------------------------------------------------
(* update_priority: effect and frame                                       *)

BoostInputs == {7, 8}

\* Three topics, priorities on both sides of the promotion threshold, and
\* the loop taking batches meanwhile.
NextBoost ==
    \/ \E t \in QueueTopics : add_topic(t, NoPriority) /\ UNCHANGED <<urgent, skillVars, cons, sideVars>>
    \/ \E t \in QueueTopics, p \in BoostInputs :
          update_priority(t, p) /\ UNCHANGED <<urgent, skillVars, cons, sideVars>>
    \/ start /\ UNCHANGED <<urgent, skillVars, cons, sideVars>>
    \/ \E i \in 1..MaxThreads : LoopStep(i)

SpecBoost == Init /\ [][NextBoost]_vars

\* The queue without one topic.
C37_Others(queue, topic) == SelectSeq(queue, LAMBDA x : x # topic)

\* C37: update_priority(topic, p) on a tracked topic sets the priority of
\* its task to p; with p >= 8 and the topic in the queue, the topic becomes
\* the head and the other entries keep their order; with p < 8, or with the
\* topic taken into a batch, the queue is unchanged; on an untracked topic
\* nothing changes.  The tracked and the queued topics are the same after
\* every call.
C37_UpdatePriorityEffect ==
    [][\A t \in QueueTopics, p \in BoostInputs :
          update_priority(t, p) =>
             /\ Tracked' = Tracked
             /\ Range(task_queue') = Range(task_queue)
             /\ IF t \in Tracked
                THEN /\ active_tasks' = [active_tasks EXCEPT ![t].priority = p]
                     /\ IF p >= 8 /\ t \in Range(task_queue)
                        THEN /\ Head(task_queue') = t
                             /\ Len(task_queue') = Len(task_queue)
                             /\ C37_Others(task_queue', t) = C37_Others(task_queue, t)
                        ELSE task_queue' = task_queue
                ELSE UNCHANGED <<active_tasks, task_queue>>]_vars

\* C37 witness: before any cycle, "a" and "b" have been given priority 8
\* and "b" is ahead of "a" and of "A": whatever the order of the add_topic
\* calls, one of the two was moved to the head over other entries.
C37_Witness ==
    /\ task_queue = <<"b", "a", "A">>
    /\ active_tasks["b"].priority = 8
    /\ active_tasks["a"].priority = 8
    /\ active_tasks["A"].priority = 5
    /\ stats.cycles_run = 0
    /\ \A i \in 1..MaxThreads : threads[i].pc = "none"

\* The other case happens too: a topic is given priority 8 while it is in
\* a batch, and the queue keeps its two entries.
C37_InBatch ==
    /\ \E i \in 1..MaxThreads : "a" \in Range(threads[i].batch)
    /\ "a" \notin Range(task_queue)
    /\ active_tasks["a"].priority = 8
    /\ Len(task_queue) = 1

----------------------------------------------------------------------------
(* Skills with their description, steps and prerequisites                  *)

MaxRecorded == 1     \* outcomes recorded on a row between two upserts

\* A Python list of strings, or None.
ListInputs ==
    {NoValue} \cup {<<l>> : l \in {<<>>, <<"x", "y">>, <<"y", "x">>}}

PrerequisiteInputs == {NoValue, <<(<<>>)>>, <<(<<"y">>)>>}

\* A confidence no recorded outcome leads to.
UpsertConfInputs == {<<7, 10>>}

DescriptionInputs == {NoValue, <<"d">>}

\* The tokens of a JSON text: punctuation and quoted strings.
Punct(mark) == [kind |-> "punct", text |-> mark]
Quoted(text) == [kind |-> "string", text |-> text]

\* json.dumps of a list of strings: '[', the quoted strings separated by
\* ',', and ']'.
RECURSIVE Items(_)
Items(list) ==
    IF list = <<>> THEN <<>>
    ELSE IF Len(list) = 1 THEN <<Quoted(list[1])>>
    ELSE <<Quoted(list[1]), Punct(",")>> \o Items(Tail(list))

Dumps(list) == <<Punct("[")>> \o Items(list) \o <<Punct("]")>>

\* json.loads of such a text: the strings between the brackets.
Loads(text) ==
    LET inner == SubSeq(text, 2, Len(text) - 1)
        strings == SelectSeq(inner, LAMBDA tok : tok.kind = "string")
    IN [k \in 1..Len(strings) |-> strings[k].text]

\* `json.dumps(steps) if steps else None`: None and the empty list are falsy.
JsonOrNull(list) ==
    IF list # NoValue /\ list[1] # <<>> THEN <<Dumps(list[1])>> ELSE NoValue

\* `if skill['steps']: skill['steps'] = json.loads(skill['steps'])`
ListOrNone(column) ==
    IF column # NoValue /\ column[1] # <<>> THEN <<Loads(column[1])>> ELSE column

\* Brain.learn_skill -> MemoryDatabase.add_skill with every argument.
learn_skill(skill_name, description, steps, prerequisites, confidence) ==
    /\ ~cons.txn
    /\ skill_seq < MaxUpserts
    /\ skill_seq' = skill_seq + 1
    /\ skill_memory' =
          [InsertOrReplace(skill_memory, skill_name, skill_seq + 1, confidence)
             EXCEPT ![skill_name].description = description,
                    ![skill_name].steps = JsonOrNull(steps),
                    ![skill_name].prerequisites = JsonOrNull(prerequisites)]
    /\ skill_history' = Put(skill_history, skill_name,
                            [successes |-> 0, failures |-> 0])
    /\ UNCHANGED <<schedVars, sideVars, storeVars, cons>>

\* Brain.recall_skill -> MemoryDatabase.get_skill: the row as a dict with
\* the two columns decoded, or None.
get_skill(table, skill_name) ==
    IF skill_name \in DOMAIN table
    THEN <<[skill_name |-> skill_name,
            row |-> [table[skill_name] EXCEPT
                        !.steps = ListOrNone(@),
                        !.prerequisites = ListOrNone(@)]]>>
    ELSE NoValue

NextUpsert ==
    \/ \E n \in SkillNames, d \in DescriptionInputs, s \in ListInputs,
          p \in PrerequisiteInputs, c \in UpsertConfInputs : learn_skill(n, d, s, p, c)
    \/ \E n \in DOMAIN skill_memory, ok \in BOOLEAN :
          /\ skill_memory[n].success_count + skill_memory[n].failure_count < MaxRecorded
          /\ update_skill_stats(n, ok, <<100>>)

SpecUpsert == InitSkill /\ [][NextUpsert]_vars

\* What get_skill returns for a list that was supplied: the list, or None
\* for None and for the empty list.
C38_Decoded(list) ==
    IF list # NoValue /\ list[1] # <<>> THEN list ELSE NoValue

----------------------------------------------------------------------------
(* The average duration of a skill                                         *)

\* An update_skill_stats call on a skill that exists.
C39_Recorded(n, ok, d) ==
    update_skill_stats(n, ok, d) /\ n \in DOMAIN skill_memory

\* C39: update_skill_stats(name, success, d) sets avg_duration_ms to the
\* pairwise average (old + d) / 2 when an average is stored and a duration
\* d >= 0 is supplied, d = 0 and old = 0 included; sets it to d when no
\* average is stored yet; and leaves it as it is when no duration is
\* supplied.
C39_PairwiseAverage ==
    [][\A n \in SkillNames, ok \in BOOLEAN, d \in DurationInputs :
          C39_Recorded(n, ok, d) =>
             LET old == skill_memory[n].avg_duration_ms
                 new == skill_memory'[n].avg_duration_ms
             IN IF d = NoValue THEN new = old
                ELSE IF old = NoValue THEN new = d
                ELSE new # NoValue /\ 2 * new[1] = old[1] + d[1]]_vars

\* What does hold: a duration other than 0 sets the average to the floor
\* of (old + d) / 2, or to d when no average is stored; a duration of 0 and
\* a missing duration leave the column as it is; and no stored average is 0.
C39_AverageOfNonZero ==
    /\ [][\A n \in SkillNames, ok \in BOOLEAN, d \in DurationInputs :
             C39_Recorded(n, ok, d) =>
                LET old == skill_memory[n].avg_duration_ms
                    new == skill_memory'[n].avg_duration_ms
                IN IF d = NoValue \/ d = <<0>> THEN new = old
                   ELSE IF old = NoValue THEN new = d
                   ELSE new = <<(old[1] + d[1]) \div 2>>]_vars
    /\ [](\A n \in DOMAIN skill_memory : skill_memory[n].avg_duration_ms # <<0>>)

----------------------------------------------------------------------------
(* Round trip of the steps and prerequisites of a skill                    *)

\* The lists get_skill returns for a skill.
C40_Lists(table, n) ==
    <<get_skill(table, n)[1].row.steps, get_skill(table, n)[1].row.prerequisites>>

\* C40: get_skill(name) after an upsert of name with the steps S and the
\* prerequisites P returns a skill of that name whose steps and
\* prerequisites are lists equal to S and P in the same order, the empty
\* list included; get_skill of a name never stored returns no skill.
C40_RoundTrip ==
    /\ [](\A n \in SkillNames \ DOMAIN skill_memory : get_skill(skill_memory, n) = NoValue)
    /\ [][\A n \in SkillNames, d \in DescriptionInputs,
             s \in ListInputs \ {NoValue}, p \in PrerequisiteInputs \ {NoValue},
             c \in UpsertConfInputs :
             learn_skill(n, d, s, p, c) =>
                /\ get_skill(skill_memory', n) # NoValue
                /\ get_skill(skill_memory', n)[1].skill_name = n
                /\ C40_Lists(skill_memory', n) = <<s, p>>]_vars

\* What does hold: a list that is not empty comes back equal and in the
\* same order; the empty list and None both come back as None; a name never
\* stored gives no skill.
C40_RoundTripOfNonEmpty ==
    /\ [](\A n \in SkillNames \ DOMAIN skill_memory : get_skill(skill_memory, n) = NoValue)
    /\ [][\A n \in SkillNames, d \in DescriptionInputs, s \in ListInputs,
             p \in PrerequisiteInputs, c \in UpsertConfInputs :
             learn_skill(n, d, s, p, c) =>
                /\ get_skill(skill_memory', n)[1].skill_name = n
                /\ C40_Lists(skill_memory', n) =
                      <<IF s = <<(<<>>)>> THEN NoValue ELSE s,
                        IF p = <<(<<>>)>> THEN NoValue ELSE p>>]_vars

=============================================================================
